---- MODULE Spec2Model ----
(***************************************************************************)
(* Merge engine of ldesign-config (src/src/utils.ts): deepMerge and the    *)
(* operations layered on it, modelled over a heap of JavaScript objects    *)
(* and arrays so that aliasing and in-place writes are visible.            *)
(*                                                                         *)
(* Key names are own-property names of configuration documents: names      *)
(* that Object.prototype also defines (toString, constructor, ...) and     *)
(* __proto__ are outside the key domain of the model.  Objects are kept    *)
(* as functions from key names to values; the for-in loops visit the keys  *)
(* in the fixed order KeyOrder.                                            *)
(***************************************************************************)
EXTENDS Naturals, Sequences, FiniteSets, TLC

VARIABLES pc, heap, heap0, target, source, options, call, result, log

\* validateConfig(config, schema): its two arguments and what the call gave
VARIABLES config, schema, outcome

mergeVars == <<heap, heap0, target, source, options, call, result, log>>

\* LDesignConfig: the files on disk, process.env[envKey], this.options,
\* this.configCache, and what the last call gave its caller
VARIABLES disk, nodeEnv, loaderOptions, configCache, reply

validateVars == <<config, schema, outcome>>

loadVars == <<disk, nodeEnv, loaderOptions, configCache, reply>>

\* LDesignConfig with calls in progress: the loads that have read their files
\* and not yet returned, this.watcher, the paths the watcher holds events
\* for, and three counters that stamp what was read when: the changes made
\* to the disk, the changes made when the last notification was processed,
\* and for each cache entry the changes made when its files were read
VARIABLES inFlight, loaderWatcher, pendingPaths, changes, notified, cacheRead

asyncVars == <<inFlight, loaderWatcher, pendingPaths, changes, notified, cacheRead>>

\* ConfigWatcher and DebouncedConfigWatcher (src/src/watcher.ts): which of
\* the two classes the instance is, this.watcher, the FSWatchers created and
\* not yet closed, this.watchedFiles, this.debounceTimeout,
\* this.pendingEvents, the events since the last firing or stop, and what
\* the last delivery handed to the listeners and the callback
VARIABLES debounced, watcher, handles, watchedFiles, debounceTimeout,
          pendingEvents, history, delivered

watcherVars == <<debounced, watcher, handles, watchedFiles, debounceTimeout,
                 pendingEvents, history, delivered>>

vars == <<pc, mergeVars, validateVars, loadVars, asyncVars, watcherVars>>

\* no call of the loader is in progress and it has no watcher
AsyncIdle ==
  /\ inFlight = <<>>
  /\ loaderWatcher = <<>>
  /\ pendingPaths = {}
  /\ changes = 0
  /\ notified = 0
  /\ cacheRead = <<>>

\* no watcher object is constructed
WatcherIdle ==
  /\ debounced = FALSE
  /\ watcher = <<>>
  /\ handles = <<>>
  /\ watchedFiles = {}
  /\ debounceTimeout = FALSE
  /\ pendingEvents = <<>>
  /\ history = [events |-> <<>>, closed |-> FALSE]
  /\ delivered = <<>>

-----------------------------------------------------------------------------
(* Bounds of the model *)

MaxArrLen == 2

MaxDepth == 2

-----------------------------------------------------------------------------
(* JavaScript values.  Primitives are tagged records; an object or an array *)
(* is a reference into the heap, and the heap cell holds its fields.        *)

Num(n) == [t |-> "number", n |-> n]

Str(s) == [t |-> "string", s |-> s]

Bool(b) == [t |-> "boolean", b |-> b]

Null == [t |-> "null"]

Undef == [t |-> "undefined"]

Ref(a) == [t |-> "ref", a |-> a]

ObjCell(f) == [t |-> "object", f |-> f]

ArrCell(e) == [t |-> "array", e |-> e]

EmptyFields == [k \in {} |-> Undef]

Keys == {"a", "b"}

KeyOrder == <<"a", "b">>

\* Array.isArray(v)
IsArray(h, v) == v.t = "ref" /\ h[v.a].t = "array"

\* typeof v === 'object' && v !== null && !Array.isArray(v)
IsMapping(h, v) == v.t = "ref" /\ h[v.a].t = "object"

\* obj[key]: the field's value, undefined when the object has no such field
Get(h, a, k) == IF k \in DOMAIN h[a].f THEN h[a].f[k] ELSE Undef

\* obj[key] = v on the object at address a
SetField(h, a, k, v) ==
  [h EXCEPT ![a] = ObjCell([j \in DOMAIN h[a].f \cup {k} |->
                              IF j = k THEN v ELSE h[a].f[j]])]

\* a new object or array literal: the next free address
Alloc(h, cell) == [h |-> Append(h, cell), r |-> Ref(Len(h) + 1)]

-----------------------------------------------------------------------------
(* Documents as trees (the value a reference denotes), used to draw the     *)
(* inputs and to compare documents by deep equality.                        *)

RECURSIVE Tree(_, _)
Tree(h, v) ==
  IF v.t # "ref" THEN v
  ELSE IF h[v.a].t = "array"
       THEN [t |-> "array", e |-> [i \in DOMAIN h[v.a].e |-> Tree(h, h[v.a].e[i])]]
       ELSE [t |-> "object", f |-> [k \in DOMAIN h[v.a].f |-> Tree(h, h[v.a].f[k])]]

\* the addresses of the objects and arrays reachable from a value
RECURSIVE Reach(_, _)
Reach(h, v) ==
  IF v.t # "ref" THEN {}
  ELSE {v.a} \cup
       (IF h[v.a].t = "array"
        THEN UNION {Reach(h, h[v.a].e[i]) : i \in DOMAIN h[v.a].e}
        ELSE UNION {Reach(h, h[v.a].f[k]) : k \in DOMAIN h[v.a].f})

\* Build(h, tree): the heap after parsing a document, and the value built
RECURSIVE Build(_, _)
RECURSIVE BuildFields(_, _, _, _)
RECURSIVE BuildElems(_, _, _, _)
Build(h, tr) ==
  IF tr.t = "object" THEN BuildFields(h, tr.f, KeyOrder, EmptyFields)
  ELSE IF tr.t = "array" THEN BuildElems(h, tr.e, 1, <<>>)
  ELSE [h |-> h, r |-> tr]

BuildFields(h, f, ks, acc) ==
  IF ks = <<>> THEN Alloc(h, ObjCell(acc))
  ELSE IF Head(ks) \notin DOMAIN f THEN BuildFields(h, f, Tail(ks), acc)
  ELSE LET b == Build(h, f[Head(ks)])
       IN  BuildFields(b.h, f, Tail(ks), (Head(ks) :> b.r) @@ acc)

BuildElems(h, e, i, acc) ==
  IF i > Len(e) THEN Alloc(h, ArrCell(acc))
  ELSE LET b == Build(h, e[i])
       IN  BuildElems(b.h, e, i + 1, Append(acc, b.r))

-----------------------------------------------------------------------------
(* MergeOptions (utils.ts:13-19).  A field that is not given is absent from *)
(* the record; the destructuring defaults of deepMerge fill it in.          *)

DefaultOptions == [k \in {} |-> {}]

NoMergers == [k \in {} |-> "none"]

Opt(opts, name, default) ==
  IF name \in DOMAIN opts THEN opts[name] ELSE default

\* [...new Set(seq)]: later duplicates dropped, first-occurrence order kept.
\* Set compares primitives by value and objects by reference.
RECURSIVE Unique(_, _)
Unique(seq, seen) ==
  IF seq = <<>> THEN <<>>
  ELSE IF Head(seq) \in seen THEN Unique(Tail(seq), seen)
  ELSE <<Head(seq)>> \o Unique(Tail(seq), seen \cup {Head(seq)})

\* the elements of v when it is an array, none otherwise
ElemsOf(h, v) == IF IsArray(h, v) THEN h[v.a].e ELSE <<>>

\* The custom mergers the model supplies: functions (target, source) => merged
MergerNames == {"union", "keepTarget", "constant"}

ApplyMerger(m, h, tv, sv) ==
  IF m = "union"
  THEN Alloc(h, ArrCell(Unique(ElemsOf(h, tv) \o ElemsOf(h, sv), {})))
  ELSE IF m = "keepTarget" THEN [h |-> h, r |-> tv]
  ELSE [h |-> h, r |-> Str("merged")]

\* customMergers[key]
HasCustomMerger(opts, key) ==
  key \in DOMAIN Opt(opts, "customMergers", NoMergers)

\* the skip test made after the custom-merger dispatch
InSkipKeysUnlessMerger(opts, key) ==
  key \in Opt(opts, "skipKeys", {}) /\ ~HasCustomMerger(opts, key)

\* skipKeys.includes(key)
InSkipKeys(opts, key) == key \in Opt(opts, "skipKeys", {})

\* onlyKeys && !onlyKeys.includes(key)
OutsideOnlyKeys(opts, key) ==
  "onlyKeys" \in DOMAIN opts /\ key \notin opts.onlyKeys

\* 'unique' without the Set: the concatenation keeps its duplicates
MergeArraysNoSet(h, policy, tv, sv) ==
  IF policy \in {"concat", "unique"}
  THEN Alloc(h, ArrCell(h[tv.a].e \o h[sv.a].e))
  ELSE [h |-> h, r |-> sv]

\* the array branch when both values are arrays (utils.ts:74-85)
MergeArrays(h, policy, tv, sv) ==
  IF policy = "concat" THEN Alloc(h, ArrCell(h[tv.a].e \o h[sv.a].e))
  ELSE IF policy = "unique"
       THEN Alloc(h, ArrCell(Unique(h[tv.a].e \o h[sv.a].e, {})))
       ELSE [h |-> h, r |-> sv]

\* the undefined test left out
NeverUndefined(v) == FALSE

\* sourceValue === undefined
IsUndefined(v) == v = Undef

\* a left-biased assignment: result[key] ??= sourceValue
AssignIfMissing(h, res, key, sourceValue) ==
  IF Get(h, res.a, key) = Undef THEN SetField(h, res.a, key, sourceValue) ELSE h

\* result[key] = sourceValue
AssignSource(h, res, key, sourceValue) == SetField(h, res.a, key, sourceValue)

\* { ...target, ...source }
Spread(tf, sf) ==
  [k \in DOMAIN tf \cup DOMAIN sf |-> IF k \in DOMAIN sf THEN sf[k] ELSE tf[k]]

\* the copy left out: const result = target
CopyTargetAlias(h, tgt) == [h |-> h, r |-> tgt]

\* the copy started empty: const result = {}
CopyTargetEmpty(h, tgt) == Alloc(h, ObjCell(EmptyFields))

\* const result = { ...target }
CopyTarget(h, tgt) == Alloc(h, ObjCell(h[tgt.a].f))

\* the recursive call made without its third argument
NestedOptionsDropped(opts) == DefaultOptions

\* the options handed to the recursive call (utils.ts:101)
NestedOptions(opts) == opts

\* deepMerge(target, source, options): st carries the heap and the record of
\* custom-merger invocations; path is the position of target in the document.
RECURSIVE DeepMerge(_, _, _, _, _)
RECURSIVE MergeKeys(_, _, _, _, _, _)
DeepMerge(st, tgt, src, opts, path) ==
  LET strategy == Opt(opts, "strategy", "deep")
  IN  IF strategy = "shallow"
      THEN LET al == Alloc(st.h, ObjCell(Spread(st.h[tgt.a].f, st.h[src.a].f)))
           IN  [h |-> al.h, log |-> st.log, r |-> al.r]
      ELSE IF strategy = "replace"
      THEN [h |-> st.h, log |-> st.log, r |-> src]
      ELSE LET al == CopyTarget(st.h, tgt)
           IN  MergeKeys([h |-> al.h, log |-> st.log], al.r, src, KeyOrder,
                         opts, path)

\* the for-in loop over source's keys (utils.ts:47-105), ks the keys left
MergeKeys(st, res, src, ks, opts, path) ==
  IF ks = <<>> THEN [h |-> st.h, log |-> st.log, r |-> res]
  ELSE
    LET key == Head(ks)
        sourceValue == Get(st.h, src.a, key)
        targetValue == Get(st.h, res.a, key)
        next(s) == MergeKeys(s, res, src, Tail(ks), opts, path)
    IN  IF key \notin DOMAIN st.h[src.a].f THEN next(st)
        ELSE IF InSkipKeys(opts, key) THEN next(st)
        ELSE IF OutsideOnlyKeys(opts, key) THEN next(st)
        ELSE IF IsUndefined(sourceValue) THEN next(st)
        ELSE IF HasCustomMerger(opts, key)
        THEN LET m == ApplyMerger(opts.customMergers[key], st.h,
                                   targetValue, sourceValue)
             IN  next([h |-> SetField(m.h, res.a, key, m.r),
                       log |-> Append(st.log, [path |-> path, key |-> key,
                                               t |-> targetValue,
                                               s |-> sourceValue])])
        ELSE IF IsArray(st.h, sourceValue)
        THEN IF IsArray(st.h, targetValue)
             THEN LET m == MergeArrays(st.h,
                               Opt(opts, "arrayMergeStrategy", "replace"),
                               targetValue, sourceValue)
                  IN  next([h |-> SetField(m.h, res.a, key, m.r), log |-> st.log])
             ELSE next([h |-> AssignSource(st.h, res, key, sourceValue),
                        log |-> st.log])
        ELSE IF IsMapping(st.h, sourceValue) /\ IsMapping(st.h, targetValue)
        THEN LET m == DeepMerge(st, targetValue, sourceValue,
                                NestedOptions(opts), Append(path, key))
             IN  next([h |-> SetField(m.h, res.a, key, m.r), log |-> m.log])
        ELSE next([h |-> AssignSource(st.h, res, key, sourceValue),
                   log |-> st.log])

-----------------------------------------------------------------------------
(* The operations layered on deepMerge *)

\* The predicates the model supplies to conditionalMerge: (key, value) => bool
ConditionHolds(c, key, value) ==
  IF c = "keyIsA" THEN key = "a" ELSE value.t # "ref"

\* the filter left out: every key of source is kept
FilteredFieldsAll(h, src, c) == h[src.a].f

\* the filteredSource loop of conditionalMerge (utils.ts:123-128)
FilteredFields(h, src, c) ==
  [k \in {j \in DOMAIN h[src.a].f : ConditionHolds(c, j, h[src.a].f[j])} |->
     h[src.a].f[k]]

\* the calls condition(key, source[key]) the loop makes, in order
Consulted(h, src, condition) ==
  IF condition.kind = "boolean" THEN <<>>
  ELSE LET Held(k) == k \in DOMAIN h[src.a].f
           ks == SelectSeq(KeyOrder, Held)
       IN  [i \in 1..Len(ks) |-> [key |-> ks[i], value |-> h[src.a].f[ks[i]]]]

\* conditionalMerge(target, source, condition, options)
ConditionalMerge(st, tgt, src, condition, opts) ==
  IF condition.kind = "boolean"
  THEN IF condition.b THEN DeepMerge(st, tgt, src, opts, <<>>)
       ELSE [h |-> st.h, log |-> st.log, r |-> tgt]
  ELSE LET al == Alloc(st.h, ObjCell(FilteredFields(st.h, src, condition.name)))
       IN  DeepMerge([h |-> al.h, log |-> st.log], tgt, al.r, opts, <<>>)

\* The transformer functions the model supplies: value => value
ApplyTransformer(f, v) ==
  IF f = "parseInt"
  THEN IF v = Str("2") THEN Num(2) ELSE v
  ELSE Str("T")

\* transformers[currentPath] || transformers[key]
TransformerFor(transformers, currentPath, key) ==
  IF currentPath \in DOMAIN transformers THEN transformers[currentPath]
  ELSE IF key \in DOMAIN transformers THEN transformers[key]
  ELSE "none"

\* path ? `${path}.${key}` : key
JoinPath(path, key) == IF path = "" THEN key ELSE path \o "." \o key

\* applyTransformers(obj, path) of transformMerge (utils.ts:142-164)
RECURSIVE ApplyTransformers(_, _, _, _)
RECURSIVE TransformKeys(_, _, _, _, _, _)
ApplyTransformers(h, obj, path, transformers) ==
  IF ~IsMapping(h, obj)
  THEN [h |-> h, r |-> IF path \in DOMAIN transformers
                       THEN ApplyTransformer(transformers[path], obj)
                       ELSE obj]
  ELSE LET al == Alloc(h, ObjCell(EmptyFields))
       IN  TransformKeys(al.h, al.r, obj, KeyOrder, path, transformers)

TransformKeys(h, res, obj, ks, path, transformers) ==
  IF ks = <<>> THEN [h |-> h, r |-> res]
  ELSE
    LET key == Head(ks)
        currentPath == JoinPath(path, key)
        value == Get(h, obj.a, key)
        transformer == TransformerFor(transformers, currentPath, key)
        next(hh) == TransformKeys(hh, res, obj, Tail(ks), path, transformers)
    IN  IF key \notin DOMAIN h[obj.a].f THEN next(h)
        ELSE IF transformer # "none"
        THEN next(SetField(h, res.a, key, ApplyTransformer(transformer, value)))
        ELSE IF IsMapping(h, value)
        THEN LET m == ApplyTransformers(h, value, currentPath, transformers)
             IN  next(SetField(m.h, res.a, key, m.r))
        ELSE next(SetField(h, res.a, key, value))

\* transformMerge(target, source, transformers, options)
TransformMerge(st, tgt, src, transformers, opts) ==
  LET transformedTarget == ApplyTransformers(st.h, tgt, "", transformers)
      transformedSource == ApplyTransformers(transformedTarget.h, src, "",
                                             transformers)
  IN  DeepMerge([h |-> transformedSource.h, log |-> st.log],
                transformedTarget.r, transformedSource.r, opts, <<>>)

\* !value
Falsy(v) == v \in {Undef, Null, Bool(FALSE), Num(0), Str("")}

\* The template conditions the model supplies: (config) => bool
TemplateCondition(c, h, cfg) ==
  IF c = "always" THEN TRUE
  ELSE IF c = "never" THEN FALSE
  ELSE Falsy(Get(h, cfg.a, "a"))

\* the arguments of the merge exchanged: deepMerge(template.template, config)
ApplyTemplateSwapped(st, cfg, template) ==
  IF ~TemplateCondition(template.condition, st.h, cfg)
  THEN [h |-> st.h, log |-> st.log, r |-> cfg]
  ELSE DeepMerge(st, template.template, cfg, DefaultOptions, <<>>)

\* applyTemplate(config, template) (utils.ts:434-443)
ApplyTemplate(st, cfg, template) ==
  IF ~TemplateCondition(template.condition, st.h, cfg)
  THEN [h |-> st.h, log |-> st.log, r |-> cfg]
  ELSE DeepMerge(st, cfg, template.template, DefaultOptions, <<>>)

-----------------------------------------------------------------------------
(* The inputs: documents as trees, and MergeOptions records *)

Obj(f) == [t |-> "object", f |-> f]

Arr(e) == [t |-> "array", e |-> e]

Numbers == {Num(1), Num(2)}

RECURSIVE SeqsUpTo(_, _)
SeqsUpTo(S, n) ==
  IF n = 0 THEN {<<>>}
  ELSE LET shorter == SeqsUpTo(S, n - 1)
       IN  shorter \cup {Append(q, x) : q \in shorter, x \in S}

ArrayTrees == {Arr(e) : e \in SeqsUpTo(Numbers, MaxArrLen)}

\* the objects whose keys are among Keys and whose values are among vals
ObjectsOver(vals) == {Obj(f) : f \in UNION {[S -> vals] : S \in SUBSET Keys}}

\* mappings nested d levels below a flat mapping
RECURSIVE Nested(_)
Nested(d) ==
  IF d = 0 THEN ObjectsOver(Numbers)
  ELSE {Obj("a" :> o) : o \in Nested(d - 1)}

NestedTrees == UNION {Nested(d) : d \in 0..(MaxDepth - 1)}

\* one optional field of a record: <<>> is "not given", <<v>> is "given as v"
Field(name, c) == IF Len(c) = 0 THEN DefaultOptions ELSE name :> c[1]

MkOptions(s, am, cm, sk, ok) ==
  Field("strategy", s) @@ Field("arrayMergeStrategy", am) @@
  Field("customMergers", cm) @@ Field("skipKeys", sk) @@ Field("onlyKeys", ok)

Strategies == {<<>>, <<"deep">>, <<"shallow">>, <<"replace">>, <<"append">>}

ArrayPolicies == {<<>>, <<"replace">>, <<"concat">>, <<"unique">>}

MergerSets ==
  {<<>>, <<"a" :> "union">>, <<"a" :> "keepTarget">>, <<"b" :> "constant">>}

SkipSets == {<<>>, <<{"a"}>>, <<{"b"}>>}

OnlySets == {<<>>, <<{"a"}>>, <<{"b"}>>, <<{}>>}

\* a document with the given values under "a" and "b"; <<>> leaves the key out
Doc(va, vb) == Obj(Field("a", va) @@ Field("b", vb))

\* every kind of value against every kind of value, under each strategy and
\* array policy
KindInputs ==
  {[t |-> Doc(ta, tb), s |-> Doc(sa, <<>>), o |-> MkOptions(st, am, <<>>, <<>>, <<>>)] :
     ta \in {<<>>, <<Num(1)>>, <<Null>>, <<Undef>>, <<Arr(<<Num(1), Num(2)>>)>>,
             <<Obj(("a" :> Arr(<<Num(1), Num(2)>>)) @@ ("b" :> Num(1)))>>},
     tb \in {<<>>, <<Num(1)>>},
     sa \in {<<>>, <<Undef>>, <<Num(2)>>, <<Str("2")>>, <<Bool(TRUE)>>, <<Null>>,
             <<Arr(<<Num(2), Num(1)>>)>>, <<Obj("a" :> Arr(<<Num(2), Num(1)>>))>>},
     st \in Strategies, am \in ArrayPolicies}

\* arrays against arrays under each array policy
ArrayInputs ==
  {[t |-> Doc(<<ta>>, <<>>), s |-> Doc(<<sa>>, <<>>),
    o |-> MkOptions(<<>>, am, <<>>, <<>>, <<>>)] :
     ta \in ArrayTrees \cup {Arr(<<Obj("a" :> Num(1))>>)},
     sa \in ArrayTrees \cup {Arr(<<Obj("a" :> Num(1))>>)},
     am \in ArrayPolicies}

\* nested mappings against nested mappings
NestedInputs ==
  {[t |-> Doc(<<ta>>, <<>>), s |-> Doc(<<sa>>, <<>>),
    o |-> MkOptions(st, <<>>, <<>>, <<>>, <<>>)] :
     ta \in NestedTrees, sa \in NestedTrees,
     st \in {<<>>, <<"shallow">>, <<"replace">>}}

\* the key filters and the custom mergers, under the deep strategy
FilterInputs ==
  {[t |-> Doc(ta, tb), s |-> Doc(sa, <<Num(2)>>),
    o |-> MkOptions(<<>>, am, cm, sk, ok)] :
     ta \in {<<>>, <<Num(1)>>, <<Arr(<<Num(1), Num(2)>>)>>,
             <<Obj(("a" :> Num(1)) @@ ("b" :> Num(1)))>>},
     tb \in {<<>>, <<Num(1)>>},
     sa \in {<<Undef>>, <<Num(2)>>, <<Arr(<<Num(2), Num(1)>>)>>,
             <<Obj(("a" :> Undef) @@ ("b" :> Num(2)))>>},
     am \in {<<>>, <<"concat">>},
     cm \in MergerSets, sk \in SkipSets, ok \in OnlySets}

\* skipKeys under the other strategies
SkipInputs ==
  {[t |-> Doc(ta, tb), s |-> Doc(sa, <<Num(2)>>),
    o |-> MkOptions(st, <<>>, cm, sk, <<>>)] :
     ta \in {<<>>, <<Num(1)>>, <<Obj(("a" :> Num(1)) @@ ("b" :> Num(1)))>>},
     tb \in {<<>>, <<Num(1)>>},
     sa \in {<<Undef>>, <<Num(2)>>, <<Obj(("a" :> Undef) @@ ("b" :> Num(2)))>>},
     st \in {<<"shallow">>, <<"replace">>},
     cm \in {<<>>, <<"a" :> "union">>},
     sk \in {<<{"a"}>>, <<{"b"}>>}}

Inputs ==
  KindInputs \cup ArrayInputs \cup NestedInputs \cup FilterInputs \cup SkipInputs

Conditions ==
  {[kind |-> "boolean", b |-> TRUE], [kind |-> "boolean", b |-> FALSE],
   [kind |-> "function", name |-> "keyIsA"],
   [kind |-> "function", name |-> "valueIsScalar"]}

TransformerSets ==
  {"a" :> "parseInt", "a.a" :> "stamp", ("a.b" :> "stamp") @@ ("b" :> "parseInt")}

TemplateConditions == {"always", "never", "missingA"}

-----------------------------------------------------------------------------
(* The state machine: a caller holds target and source, makes one call of   *)
(* the merge engine, and may afterwards change the returned document.       *)

Init ==
  \E in \in Inputs :
    LET bt == Build(<<>>, in.t)
        bs == Build(bt.h, in.s)
    IN  /\ heap = bs.h
        /\ heap0 = bs.h
        /\ target = bt.r
        /\ source = bs.r
        /\ options = in.o
        /\ pc = "ready"
        /\ call = [op |-> "none"]
        /\ result = Undef
        /\ log = <<>>
        /\ config = Undef
        /\ schema = <<>>
        /\ outcome = Undef
        /\ disk = <<>>
        /\ nodeEnv = <<>>
        /\ loaderOptions = <<>>
        /\ configCache = <<>>
        /\ reply = Undef
        /\ AsyncIdle
        /\ WatcherIdle

Returned(m, c) ==
  /\ heap' = m.h
  /\ log' = m.log
  /\ result' = m.r
  /\ call' = c
  /\ pc' = "returned"
  /\ UNCHANGED <<heap0, target, source, validateVars, loadVars, asyncVars,
                 watcherVars>>

CallDeepMerge ==
  /\ pc = "ready"
  /\ Returned(DeepMerge([h |-> heap, log |-> <<>>], target, source, options, <<>>),
              [op |-> "deepMerge"])
  /\ UNCHANGED options

CallConditionalMerge ==
  /\ pc = "ready"
  /\ \E c \in Conditions :
       Returned(ConditionalMerge([h |-> heap, log |-> <<>>], target, source, c,
                                 options),
                [op |-> "conditionalMerge", condition |-> c,
                 consulted |-> Consulted(heap, source, c)])
  /\ UNCHANGED options

CallTransformMerge ==
  /\ pc = "ready"
  /\ \E tr \in TransformerSets :
       Returned(TransformMerge([h |-> heap, log |-> <<>>], target, source, tr,
                               options),
                [op |-> "transformMerge", transformers |-> tr])
  /\ UNCHANGED options

\* applyTemplate takes no MergeOptions: the template is merged under the defaults
CallApplyTemplate ==
  /\ pc = "ready"
  /\ \E c \in TemplateConditions :
       Returned(ApplyTemplate([h |-> heap, log |-> <<>>], target,
                              [condition |-> c, template |-> source]),
                [op |-> "applyTemplate", condition |-> c])
  /\ options' = DefaultOptions

\* the caller changes the returned document in place: result.a = 'changed' on
\* one of its mappings, or push('changed') on one of its sequences
MutateResult ==
  /\ pc = "returned"
  /\ \E a \in Reach(heap, result) :
       heap' = IF heap[a].t = "array"
               THEN [heap EXCEPT ![a] = ArrCell(Append(heap[a].e, Str("changed")))]
               ELSE SetField(heap, a, "a", Str("changed"))
  /\ pc' = "changed"
  /\ UNCHANGED <<heap0, target, source, options, call, result, log, validateVars,
                 loadVars, asyncVars, watcherVars>>

Next ==
  \/ CallDeepMerge
  \/ CallConditionalMerge
  \/ CallTransformMerge
  \/ CallApplyTemplate
  \/ MutateResult

Spec == Init /\ [][Next]_vars

-----------------------------------------------------------------------------
(* Vocabulary of the properties *)

\* a call of deepMerge(target, source, options) has returned
Merged == pc = "returned" /\ call.op = "deepMerge"

Strategy == Opt(options, "strategy", "deep")

DeepStrategy == Strategy \notin {"shallow", "replace"}

ArrayPolicy == Opt(options, "arrayMergeStrategy", "replace")

\* the top-level keys of target and source before the call, and of the result
TargetKeys == DOMAIN heap0[target.a].f

SourceKeys == DOMAIN heap0[source.a].f

ResultKeys == DOMAIN heap[result.a].f

\* the documents under key k, compared by deep equality; undefined when absent
TargetAt(k) == Tree(heap0, Get(heap0, target.a, k))

SourceAt(k) == Tree(heap0, Get(heap0, source.a, k))

ResultAt(k) == Tree(heap, Get(heap, result.a, k))

IsScalarTree(v) == v.t \in {"number", "string", "boolean", "null"}

IsMappingTree(v) == v.t = "object"

IsArrayTree(v) == v.t = "array"

\* key k of source gets past skipKeys and onlyKeys
PassesFilters(k) ==
  /\ k \notin Opt(options, "skipKeys", {})
  /\ "onlyKeys" \in DOMAIN options => k \in options.onlyKeys

NoFiltersNoMergers ==
  DOMAIN options \cap {"skipKeys", "onlyKeys", "customMergers"} = {}

\* the result keeps for k exactly what target had, absent included
KeepsTarget(k) ==
  /\ k \in ResultKeys <=> k \in TargetKeys
  /\ ResultAt(k) = TargetAt(k)

-----------------------------------------------------------------------------
(* C1: under default options a scalar that source holds under a key         *)
(* (string, number, boolean or explicit null) is the result's value for the *)
(* key whatever target held there, and when exactly one of target's and     *)
(* source's values is a mapping the result holds source's value as it is.   *)
C1_RightBias ==
  (Merged /\ options = DefaultOptions) =>
    \A k \in SourceKeys :
      (\/ IsScalarTree(SourceAt(k))
       \/ /\ SourceAt(k) # Undef
          /\ IsMappingTree(TargetAt(k)) # IsMappingTree(SourceAt(k)))
      => (k \in ResultKeys /\ ResultAt(k) = SourceAt(k))

C1_Witness ==
  /\ Merged
  /\ options = DefaultOptions
  /\ IsMappingTree(TargetAt("a"))
  /\ SourceAt("a") = Num(2)
  /\ ResultAt("a") = Num(2)
  /\ TargetAt("b") = Num(1)
  /\ ResultAt("b") = Num(1)

-----------------------------------------------------------------------------
\* deepMerge(target.k, source.k, options), as a document
NestedMergeAt(k) ==
  LET m == DeepMerge([h |-> heap0, log |-> <<>>], Get(heap0, target.a, k),
                     Get(heap0, source.a, k), options, <<k>>)
  IN  Tree(m.h, m.r)

\* r combines the mappings t and s at every depth: a key only in t keeps t's
\* value, a scalar of s wins, a mapping of s over a non-mapping wins, and
\* two mappings combine in the same way
RECURSIVE NestedMerged(_, _, _)
NestedMerged(t, s, r) ==
  /\ IsMappingTree(r)
  /\ DOMAIN t.f \subseteq DOMAIN r.f
  /\ \A j \in DOMAIN t.f \ DOMAIN s.f : r.f[j] = t.f[j]
  /\ \A j \in DOMAIN s.f :
       LET tj == IF j \in DOMAIN t.f THEN t.f[j] ELSE Undef
       IN  /\ IsScalarTree(s.f[j]) => (j \in DOMAIN r.f /\ r.f[j] = s.f[j])
           /\ (IsMappingTree(s.f[j]) /\ ~IsMappingTree(tj)) =>
                (j \in DOMAIN r.f /\ r.f[j] = s.f[j])
           /\ (IsMappingTree(s.f[j]) /\ IsMappingTree(tj)) =>
                (j \in DOMAIN r.f /\ NestedMerged(tj, s.f[j], r.f[j]))

(* C2: under the deep strategy with no skipKeys, onlyKeys or customMergers, *)
(* a key that holds a mapping in both target and source holds in the result *)
(* deepMerge(target.k, source.k, options), at every nesting depth: nested   *)
(* keys only in target.k keep target's value, nested keys of source.k take  *)
(* source's value.                                                          *)
C2_RecursiveMerge ==
  (Merged /\ DeepStrategy /\ NoFiltersNoMergers) =>
    \A k \in SourceKeys :
      (IsMappingTree(TargetAt(k)) /\ IsMappingTree(SourceAt(k))) =>
        /\ k \in ResultKeys
        /\ ResultAt(k) = NestedMergeAt(k)
        /\ NestedMerged(TargetAt(k), SourceAt(k), ResultAt(k))

\* {a: {a: {a: 1, b: 1}}} merged with {a: {a: {a: 2}}}
C2_Witness ==
  /\ Merged /\ DeepStrategy /\ NoFiltersNoMergers
  /\ TargetAt("a") = Obj("a" :> Obj(("a" :> Num(1)) @@ ("b" :> Num(1))))
  /\ SourceAt("a") = Obj("a" :> Obj("a" :> Num(2)))
  /\ ResultAt("a") = Obj("a" :> Obj(("a" :> Num(2)) @@ ("b" :> Num(1))))

-----------------------------------------------------------------------------
\* q without its later duplicates, in the order of first occurrence
KeepFirst(q) ==
  LET first == {i \in 1..Len(q) : \A j \in 1..(i - 1) : q[j] # q[i]}
      nth[n \in 0..Cardinality(first)] ==
        IF n = 0 THEN 0
        ELSE CHOOSE i \in first :
               /\ i > nth[n - 1]
               /\ \A j \in first : j > nth[n - 1] => i <= j
  IN  [n \in 1..Cardinality(first) |-> q[nth[n]]]

\* what the array rule gives for a key that source holds a sequence under.
\* Duplicates are elements equal as Set compares them: primitives by value,
\* mappings and sequences by identity.
ArrayRuleAt(k) ==
  LET tv == Get(heap0, target.a, k)
      sv == Get(heap0, source.a, k)
      both == heap0[tv.a].e \o heap0[sv.a].e
      AsTree(q) == Arr([i \in 1..Len(q) |-> Tree(heap0, q[i])])
  IN  IF ~IsArray(heap0, tv) THEN SourceAt(k)
      ELSE IF ArrayPolicy = "concat" THEN AsTree(both)
      ELSE IF ArrayPolicy = "unique" THEN AsTree(KeepFirst(both))
      ELSE SourceAt(k)

-----------------------------------------------------------------------------
(* C4: a key listed in skipKeys is never overridden by a merge: under every *)
(* strategy, array policy and custom merger, the result holds for each      *)
(* top-level key of skipKeys what target held (nothing if target had        *)
(* nothing), whatever source holds.                                         *)
C4_SkipKeysNeverOverridden ==
  Merged => \A k \in Opt(options, "skipKeys", {}) : KeepsTarget(k)

-----------------------------------------------------------------------------
\* options without its onlyKeys
WithoutOnlyKeys == [n \in DOMAIN options \ {"onlyKeys"} |-> options[n]]

\* deepMerge(target.k, source.k) in full, no nested key filtered by onlyKeys
FullMergeAt(k) ==
  LET m == DeepMerge([h |-> heap0, log |-> <<>>], Get(heap0, target.a, k),
                     Get(heap0, source.a, k), WithoutOnlyKeys, <<k>>)
  IN  Tree(m.h, m.r)

(* C5: onlyKeys restricts the merge to the listed top-level keys only: a    *)
(* top-level key of source outside onlyKeys leaves target's value untouched, *)
(* and a top-level key in onlyKeys that holds a mapping in both documents   *)
(* is deep-merged in full, whether or not its nested keys' names appear in  *)
(* onlyKeys.                                                                *)
C5_OnlyKeysTopLevel ==
  (/\ Merged /\ DeepStrategy
   /\ "onlyKeys" \in DOMAIN options
   /\ DOMAIN options \cap {"skipKeys", "customMergers"} = {}) =>
    \A k \in SourceKeys :
      /\ k \notin options.onlyKeys => KeepsTarget(k)
      /\ (/\ k \in options.onlyKeys
          /\ IsMappingTree(TargetAt(k)) /\ IsMappingTree(SourceAt(k))) =>
           ResultAt(k) = FullMergeAt(k)

-----------------------------------------------------------------------------
\* the invocations of a custom merger for the top-level key k
MergerCalls(k) == {i \in DOMAIN log : log[i].path = <<>> /\ log[i].key = k}

(* C6: under the deep strategy a key that source holds as undefined is      *)
(* skipped: the result holds for it what target held, so nothing present in *)
(* target becomes absent, and no custom merger is invoked for it; an        *)
(* explicit null of source is not absent and overwrites target's value.     *)
C6_UndefinedSkipped ==
  (Merged /\ DeepStrategy) =>
    \A k \in SourceKeys :
      /\ SourceAt(k) = Undef => (KeepsTarget(k) /\ MergerCalls(k) = {})
      /\ (/\ SourceAt(k) = Null
          /\ PassesFilters(k) /\ ~HasCustomMerger(options, k)) =>
           (k \in ResultKeys /\ ResultAt(k) = Null)

\* {a: 1} merged with {a: undefined} where a has a custom merger
C6_Witness ==
  /\ Merged /\ DeepStrategy
  /\ "a" \in SourceKeys
  /\ SourceAt("a") = Undef
  /\ TargetAt("a") = Num(1)
  /\ ResultAt("a") = Num(1)
  /\ PassesFilters("a") /\ HasCustomMerger(options, "a")
  /\ log = <<>>

-----------------------------------------------------------------------------
\* customMergers[k](target.k, source.k), as a document
MergerResultAt(k) ==
  LET m == ApplyMerger(options.customMergers[k], heap0,
                       Get(heap0, target.a, k), Get(heap0, source.a, k))
  IN  Tree(m.h, m.r)

\* what the array, mapping and scalar rules give for k
RuleResultAt(k) ==
  IF IsArrayTree(SourceAt(k)) THEN ArrayRuleAt(k)
  ELSE IF IsMappingTree(SourceAt(k)) /\ IsMappingTree(TargetAt(k))
       THEN NestedMergeAt(k)
       ELSE SourceAt(k)

-----------------------------------------------------------------------------
\* target and source are deep-equal to what they were before the call
InputsUnchanged ==
  /\ Tree(heap, target) = Tree(heap0, target)
  /\ Tree(heap, source) = Tree(heap0, source)

(* C8: deepMerge, conditionalMerge, transformMerge and applyTemplate never  *)
(* mutate their inputs: when the call returns, target and source are        *)
(* deep-equal to what they were before it, under every strategy and array   *)
(* policy and at every nesting depth.                                       *)
C8_InputsNotMutated == pc = "returned" => InputsUnchanged

\* {a: {a: {a: 1}}} deep-merged with {a: {a: {a: 2}}}
C8_Witness ==
  /\ Merged /\ DeepStrategy
  /\ TargetAt("a") = Obj("a" :> Obj("a" :> Num(1)))
  /\ SourceAt("a") = Obj("a" :> Obj("a" :> Num(2)))
  /\ ResultAt("a") = Obj("a" :> Obj("a" :> Num(2)))
  /\ Tree(heap, target) = Obj("a" :> Obj("a" :> Obj("a" :> Num(1))))

-----------------------------------------------------------------------------
\* the mappings and sequences of target and source
InputCells == Reach(heap0, target) \cup Reach(heap0, source)

(* C9: every document deepMerge returns is freshly constructed: under every *)
(* strategy it shares no mapping or sequence with target or source at any   *)
(* depth, so a later in-place change to the returned document never changes *)
(* target or source.                                                        *)
C9_ResultFresh ==
  call.op = "deepMerge" =>
    /\ pc = "returned" => Reach(heap, result) \cap InputCells = {}
    /\ pc = "changed" => InputsUnchanged

-----------------------------------------------------------------------------
(* C10: merging leaves untouched every key that source does not supply:     *)
(* under the deep or shallow strategy each key present only in target has   *)
(* target's value in the result, and deepMerge(x, {}) deep-equals x under   *)
(* default options.                                                         *)
C10_TargetOnlyKeysKept ==
  (Merged /\ Strategy # "replace") =>
    /\ \A k \in TargetKeys \ SourceKeys :
         k \in ResultKeys /\ ResultAt(k) = TargetAt(k)
    /\ (options = DefaultOptions /\ SourceKeys = {}) =>
         Tree(heap, result) = Tree(heap0, target)

\* {a: 1, b: 1} merged with {a: 2}
C10_Witness ==
  /\ Merged /\ Strategy # "replace"
  /\ "b" \in TargetKeys \ SourceKeys
  /\ TargetAt("a") = Num(1)
  /\ SourceAt("a") = Num(2)
  /\ ResultAt("a") = Num(2)
  /\ ResultAt("b") = TargetAt("b")
  /\ TargetAt("b") = Num(1)

\* {a: {...}, b: 1} merged with {} under default options
C10_EmptySourceWitness ==
  /\ Merged /\ options = DefaultOptions
  /\ SourceKeys = {}
  /\ IsMappingTree(TargetAt("a"))
  /\ Tree(heap, result) = Tree(heap0, target)

-----------------------------------------------------------------------------
\* deepMerge(t, s, opts) of two documents given as trees, as a document
MergeOfTrees(t, s, opts) ==
  LET bt == Build(<<>>, t)
      bs == Build(bt.h, s)
      m == DeepMerge([h |-> bs.h, log |-> <<>>], bt.r, bs.r, opts, <<>>)
  IN  Tree(m.h, m.r)

\* source restricted to the top-level keys the predicate c accepts
AcceptedSource(c) ==
  Obj([k \in {j \in SourceKeys :
                ConditionHolds(c, j, Get(heap0, source.a, j))} |-> SourceAt(k)])

ConditionalMerged == pc = "returned" /\ call.op = "conditionalMerge"

(* C11: conditionalMerge(target, source, p, options) equals                 *)
(* deepMerge(target, source', options) where source' holds exactly the      *)
(* top-level keys of source that p accepts, p being consulted once for each *)
(* top-level key of source and for nothing else; with the constant true it  *)
(* equals deepMerge(target, source, options), and with the constant false   *)
(* it returns target unchanged.                                             *)
C11_ConditionalMerge ==
  ConditionalMerged =>
    IF call.condition.kind = "function"
    THEN /\ Tree(heap, result) =
              MergeOfTrees(Tree(heap0, target), AcceptedSource(call.condition.name),
                           options)
         /\ Len(call.consulted) = Cardinality(SourceKeys)
         /\ \A k \in SourceKeys :
              \E i \in DOMAIN call.consulted :
                call.consulted[i] = [key |-> k, value |-> Get(heap0, source.a, k)]
    ELSE IF call.condition.b
    THEN /\ Tree(heap, result) =
              MergeOfTrees(Tree(heap0, target), Tree(heap0, source), options)
         /\ call.consulted = <<>>
    ELSE /\ result = target
         /\ heap = heap0
         /\ call.consulted = <<>>

\* {a: 1, b: 1} with {a: 2, b: 2} and the predicate key === 'a'
C11_Witness ==
  /\ ConditionalMerged
  /\ call.condition = [kind |-> "function", name |-> "keyIsA"]
  /\ TargetAt("a") = Num(1) /\ TargetAt("b") = Num(1)
  /\ SourceAt("a") = Num(2) /\ SourceAt("b") = Num(2)
  /\ ResultAt("a") = Num(2) /\ ResultAt("b") = Num(1)
  /\ Len(call.consulted) = 2

-----------------------------------------------------------------------------
\* a document with the transformers applied to its leaves only: a mapping is
\* walked into and never handed to a transformer; an array counts as a leaf
RECURSIVE LeavesTransformed(_, _, _)
LeavesTransformed(tr, path, transformers) ==
  IF ~IsMappingTree(tr) THEN tr
  ELSE Obj([k \in DOMAIN tr.f |->
         LET v == tr.f[k]
             currentPath == JoinPath(path, k)
             f == TransformerFor(transformers, currentPath, k)
         IN  IF IsMappingTree(v) THEN LeavesTransformed(v, currentPath, transformers)
             ELSE IF f = "none" THEN v
             ELSE ApplyTransformer(f, v)])

TransformMerged == pc = "returned" /\ call.op = "transformMerge"

(* C12: transformMerge applies transformers only to leaves: each leaf at    *)
(* dotted path p with key k is replaced by transformers[p](value), else by  *)
(* transformers[k](value), else left unchanged; a mapping-valued key is     *)
(* never passed to a transformer but is walked into; the result is          *)
(* deepMerge of the two transformed documents with the given options.       *)
C12_TransformLeavesOnly ==
  TransformMerged =>
    Tree(heap, result) =
      MergeOfTrees(LeavesTransformed(Tree(heap0, target), "", call.transformers),
                   LeavesTransformed(Tree(heap0, source), "", call.transformers),
                   options)

-----------------------------------------------------------------------------
TemplateApplied == pc = "returned" /\ call.op = "applyTemplate"

(* C13: applyTemplate(config, template) returns config unchanged when       *)
(* template.condition(config) is false, and otherwise returns               *)
(* deepMerge(config, template.template) under default options, so the       *)
(* template's values override config's for the keys they share (two         *)
(* mappings are merged, undefined is skipped) and every other key of config *)
(* is kept.                                                                 *)
C13_ApplyTemplate ==
  TemplateApplied =>
    IF ~TemplateCondition(call.condition, heap0, target)
    THEN result = target /\ heap = heap0
    ELSE /\ Tree(heap, result) =
              MergeOfTrees(Tree(heap0, target), Tree(heap0, source), DefaultOptions)
         /\ \A k \in TargetKeys \ SourceKeys :
              k \in ResultKeys /\ ResultAt(k) = TargetAt(k)
         /\ \A k \in TargetKeys \cap SourceKeys :
              (SourceAt(k) # Undef
                 /\ ~(IsMappingTree(TargetAt(k)) /\ IsMappingTree(SourceAt(k))))
              => ResultAt(k) = SourceAt(k)

\* {a: 1, b: 1} under a template {a: 2} whose condition holds
C13_Witness ==
  /\ TemplateApplied
  /\ call.condition = "missingA"
  /\ TargetAt("a") = Null /\ TargetAt("b") = Num(1)
  /\ SourceKeys = {"a"} /\ SourceAt("a") = Num(2)
  /\ ResultAt("a") = Num(2) /\ ResultAt("b") = Num(1)

\* the condition fails and config comes back as it was
C13_SkippedWitness ==
  /\ TemplateApplied
  /\ call.condition = "missingA"
  /\ TargetAt("a") = Num(1)
  /\ SourceAt("a") = Num(2)
  /\ result = target

-----------------------------------------------------------------------------
(* Validation engine (src/src/utils.ts:340-419).  validateConfig reads its  *)
(* arguments and builds new documents only, so documents are kept here as   *)
(* values: Obj and Arr over the tagged primitives.  A schema is the         *)
(* sequence of its [key, rule] entries in Object.entries order; a rule is   *)
(* a record holding the fields it was written with.                         *)

RuleHas(rule, name) == name \in DOMAIN rule

\* rule.required as a condition
Required(rule) == RuleHas(rule, "required") /\ rule.required

\* no default is ever found
NoDefault(rule) == Undef

\* rule.default
Default(rule) == IF RuleHas(rule, "default") THEN rule.default ELSE Undef

\* only undefined counts as missing
IsMissingUndefinedOnly(value) == value = Undef

\* value === undefined || value === null
IsMissing(value) == value \in {Undef, Null}

\* typeof alone: an array is an 'object'
TypeOfNoArray(v) == IF v.t \in {"array", "null"} THEN "object" ELSE v.t

\* Array.isArray(value) ? 'array' : typeof value
TypeOf(v) ==
  IF v.t = "array" THEN "array"
  ELSE IF v.t = "null" THEN "object"
  ELSE v.t

\* The validators the model supplies: (value) => true | string | false
ApplyValidator(f, v) ==
  IF f = "isTwo"
  THEN IF v = Num(2) THEN Bool(TRUE) ELSE Str("must be 2")
  ELSE Bool(v = Num(2))

\* the nested errors passed up as they are
Unprefixed(path, errs) == errs

\* childResult.errors.map(err => `${path}.${err}`)
Prefixed(path, errs) == [i \in DOMAIN errs |-> path \o "." \o errs[i]]

\* config[key]; undefined when the key is not there
At(cfg, key) == IF key \in DOMAIN cfg.f THEN cfg.f[key] ELSE Undef

\* validated starts empty
CopyConfigEmpty(cfg) == Obj(EmptyFields)

\* { ...config }: spreading null gives {}
CopyConfig(cfg) == IF cfg = Null THEN Obj(EmptyFields) ELSE cfg

\* an absent value comes back as null
StepNullForUndefined(key, rule, errs, checks, value, ret, sub) ==
  [key |-> key, rule |-> rule, errors |-> errs, checks |-> checks,
   value |-> value, ret |-> IF ret = Undef THEN Null ELSE ret, sub |-> sub,
   thrown |-> FALSE]

\* what one call of validateValue did: the errors it pushed, the checks it
\* ran, the value the checks were run on, the value it returned, and the
\* calls made by the nested validateConfig
Step(key, rule, errs, checks, value, ret, sub) ==
  [key |-> key, rule |-> rule, errors |-> errs, checks |-> checks,
   value |-> value, ret |-> ret, sub |-> sub, thrown |-> FALSE]

\* a TypeError leaves the call: there is no return value
Thrown == [thrown |-> TRUE]

RECURSIVE ValidateConfig(_, _)
RECURSIVE ValidateEntries(_, _, _)
RECURSIVE ValidateValue(_, _, _, _)

\* validateValue(value, key, rule, path) (utils.ts:361-408)
ValidateValue(given, key, rule, path) ==
  LET Done(errs, checks, value, ret) == Step(key, rule, errs, checks, value, ret, <<>>)
  IN
  IF Required(rule) /\ IsMissing(given)
  THEN Done(<<path \o " is required">>, {}, given, Default(rule))
  ELSE IF given = Undef /\ Default(rule) # Undef
  THEN Done(<<>>, {}, given, Default(rule))
  ELSE IF given = Undef
  THEN Done(<<>>, {}, given, given)
  ELSE
    LET value == IF RuleHas(rule, "transform")
                 THEN ApplyTransformer(rule.transform, given)
                 ELSE given
        transformRun == IF RuleHas(rule, "transform") THEN {"transform"} ELSE {}
        actualType == TypeOf(value)
        typeRun == transformRun \cup (IF RuleHas(rule, "type") THEN {"type"} ELSE {})
        res == ApplyValidator(rule.validator, value)
        validatorRun ==
          typeRun \cup (IF RuleHas(rule, "validator") THEN {"validator"} ELSE {})
        childResult == ValidateConfig(value, rule.children)
    IN  IF RuleHas(rule, "type") /\ actualType # rule.type
        THEN Done(<<path \o " should be " \o rule.type \o ", got " \o actualType>>,
                  typeRun, value, Default(rule))
        ELSE IF RuleHas(rule, "validator") /\ res # Bool(TRUE)
        THEN Done(<<IF res.t = "string" THEN res.s
                    ELSE path \o " validation failed">>,
                  validatorRun, value, Default(rule))
        ELSE IF RuleHas(rule, "children") /\ value.t \in {"object", "null"}
        THEN IF childResult.thrown THEN Thrown
             ELSE Step(key, rule, Prefixed(path, childResult.errors),
                       validatorRun \cup {"children"}, value,
                       childResult.validated, childResult.steps)
        ELSE Done(<<>>, validatorRun, value, value)

\* the loop over Object.entries(schema) (utils.ts:410-418) and the result;
\* reading config[key] of null is a TypeError
ValidateEntries(cfg, entries, acc) ==
  IF entries = <<>>
  THEN [thrown |-> FALSE, isValid |-> Len(acc.errors) = 0, errors |-> acc.errors,
        validated |-> acc.validated, steps |-> acc.steps]
  ELSE IF cfg = Null THEN Thrown
  ELSE
    LET key == Head(entries).key
        rule == Head(entries).rule
        step == ValidateValue(At(cfg, key), key, rule, key)
    IN  IF step.thrown THEN Thrown
        ELSE ValidateEntries(cfg, Tail(entries),
               [errors |-> acc.errors \o step.errors,
                validated |-> Obj((key :> step.ret) @@ acc.validated.f),
                steps |-> Append(acc.steps, step)])

\* validateConfig(config, schema) (utils.ts:354-419)
ValidateConfig(cfg, sch) ==
  ValidateEntries(cfg, sch,
    [errors |-> <<>>, validated |-> CopyConfig(cfg), steps |-> <<>>])

-----------------------------------------------------------------------------
(* The configs and schemas validateConfig is called with *)

Entry(key, rule) == [key |-> key, rule |-> rule]

MkRule(ty, rq, df, tr, va, ch) ==
  Field("type", ty) @@ Field("required", rq) @@ Field("default", df) @@
  Field("transform", tr) @@ Field("validator", va) @@ Field("children", ch)

\* rules without children: every combination of the other five fields
FlatRules ==
  {MkRule(ty, rq, df, tr, va, <<>>) :
     ty \in {<<>>, <<"number">>, <<"string">>, <<"object">>, <<"array">>},
     rq \in {<<>>, <<TRUE>>, <<FALSE>>},
     df \in {<<>>, <<Num(1)>>, <<Str("d")>>},
     tr \in {<<>>, <<"parseInt">>},
     va \in {<<>>, <<"isTwo">>, <<"isTwoBool">>}}

\* one rule for key a against every kind of value; b is not in the schema
RuleInputs ==
  {[c |-> Doc(va, <<Num(1)>>), s |-> <<Entry("a", r)>>] :
     va \in {<<>>, <<Undef>>, <<Null>>, <<Num(1)>>, <<Num(2)>>, <<Str("2")>>,
             <<Str("x")>>, <<Bool(TRUE)>>, <<Arr(<<Num(1)>>)>>,
             <<Obj("b" :> Num(1))>>},
     r \in FlatRules}

SmallRules ==
  {MkRule(<<>>, <<TRUE>>, <<>>, <<>>, <<>>, <<>>),
   MkRule(<<>>, <<TRUE>>, <<Num(1)>>, <<>>, <<>>, <<>>),
   MkRule(<<"number">>, <<>>, <<>>, <<>>, <<>>, <<>>),
   MkRule(<<>>, <<>>, <<>>, <<>>, <<"isTwo">>, <<>>)}

\* two rules, written in either order
OrderInputs ==
  {[c |-> Doc(va, vb), s |-> <<Entry(ks[1], r1), Entry(ks[2], r2)>>] :
     va \in {<<>>, <<Str("x")>>, <<Num(2)>>},
     vb \in {<<>>, <<Str("x")>>, <<Num(2)>>},
     ks \in {<<"a", "b">>, <<"b", "a">>},
     r1 \in SmallRules, r2 \in SmallRules}

\* the schemas given as children, nested up to d levels
RECURSIVE ChildSchemas(_)
ChildSchemas(d) ==
  IF d = 0
  THEN {<<>>,
        <<Entry("a", MkRule(<<>>, <<TRUE>>, <<>>, <<>>, <<>>, <<>>))>>,
        <<Entry("a", MkRule(<<>>, <<>>, <<Num(1)>>, <<>>, <<>>, <<>>))>>,
        <<Entry("a", MkRule(<<"number">>, <<>>, <<>>, <<>>, <<>>, <<>>)),
          Entry("b", MkRule(<<>>, <<TRUE>>, <<>>, <<>>, <<>>, <<>>))>>,
        <<Entry("b", MkRule(<<>>, <<TRUE>>, <<>>, <<>>, <<>>, <<>>)),
          Entry("a", MkRule(<<>>, <<>>, <<>>, <<>>, <<"isTwo">>, <<>>))>>}
  ELSE LET below == ChildSchemas(d - 1)
       IN  below
           \cup {<<Entry("a", MkRule(<<>>, <<>>, <<>>, <<>>, <<>>, <<s>>))>> :
                   s \in below}
           \cup {<<Entry("b", MkRule(<<>>, <<TRUE>>, <<>>, <<>>, <<>>, <<>>)),
                   Entry("a", MkRule(<<"object">>, <<>>, <<>>, <<>>, <<>>, <<s>>))>> :
                   s \in below}

\* the values found under a key with children, nested up to d levels
RECURSIVE ChildValues(_)
ChildValues(d) ==
  IF d = 0 THEN {Num(2), Str("x"), Null}
  ELSE LET below == ChildValues(d - 1)
       IN  {Num(2), Str("x"), Null}
           \cup {Doc(va, vb) : va \in {<<>>} \cup {<<v>> : v \in below},
                               vb \in {<<>>, <<Num(1)>>}}

\* a rule with children for key a
ChildInputs ==
  {[c |-> Doc(va, vb),
    s |-> <<Entry("a", MkRule(ty, rq, df, <<>>, <<>>, <<ch>>))>>] :
     va \in {<<>>, <<Arr(<<Num(1)>>)>>} \cup {<<v>> : v \in ChildValues(MaxDepth)},
     vb \in {<<>>, <<Num(1)>>},
     ty \in {<<>>, <<"object">>},
     rq \in {<<>>, <<TRUE>>},
     df \in {<<>>, <<Obj("b" :> Num(2))>>},
     ch \in ChildSchemas(MaxDepth - 1)}

ValidateInputs == RuleInputs \cup OrderInputs \cup ChildInputs

-----------------------------------------------------------------------------
(* validateConfig as a state machine: one call on one config and schema *)

\* the merge engine is not called
MergeIdle ==
  /\ heap = <<>>
  /\ heap0 = <<>>
  /\ target = Undef
  /\ source = Undef
  /\ options = DefaultOptions
  /\ call = [op |-> "none"]
  /\ result = Undef
  /\ log = <<>>

\* no loader is constructed
LoadIdle ==
  /\ disk = <<>>
  /\ nodeEnv = <<>>
  /\ loaderOptions = <<>>
  /\ configCache = <<>>
  /\ reply = Undef

InitValidate ==
  /\ \E in \in ValidateInputs : config = in.c /\ schema = in.s
  /\ outcome = Undef
  /\ pc = "ready"
  /\ MergeIdle
  /\ LoadIdle
  /\ AsyncIdle
  /\ WatcherIdle

CallValidateConfig ==
  /\ pc = "ready"
  /\ outcome' = ValidateConfig(config, schema)
  /\ pc' = IF outcome'.thrown THEN "thrown" ELSE "validated"
  /\ UNCHANGED <<config, schema, mergeVars, loadVars, asyncVars, watcherVars>>

NextValidate == CallValidateConfig

SpecValidate == InitValidate /\ [][NextValidate]_vars

-----------------------------------------------------------------------------
(* Vocabulary of the validation properties *)

ValidationReturned == pc = "validated"

\* every call of validateValue made, nested ones included: the value it was
\* given, the dotted path from the top-level config, and what it did
RECURSIVE CallsIn(_, _, _)
CallsIn(cfg, steps, prefix) ==
  UNION {{[given |-> At(cfg, steps[i].key), path |-> prefix \o steps[i].key,
           prefix |-> prefix, top |-> prefix = "", step |-> steps[i]]}
         \cup (IF "children" \in steps[i].checks
               THEN CallsIn(steps[i].value, steps[i].sub,
                            prefix \o steps[i].key \o ".")
               ELSE {}) : i \in DOMAIN steps}

ValidateCalls == CallsIn(config, outcome.steps, "")

\* the value the rule of a call falls back to
FallsBackTo(c) ==
  IF "default" \in DOMAIN c.step.rule THEN c.step.rule.default ELSE Undef

\* the rule of the call has required: true
IsRequired(c) == "required" \in DOMAIN c.step.rule /\ c.step.rule.required

\* the call's return value is what validated holds under its key
Stored(c) == c.top => At(outcome.validated, c.step.key) = c.step.ret

Occurrences(seq, x) == Cardinality({i \in DOMAIN seq : seq[i] = x})

(* C14: for a rule with required: true, an absent or null value yields      *)
(* exactly one error "<path> is required", validated.k becomes the rule's   *)
(* default (absent if none), no transform, type, validator or children      *)
(* check runs for the key, and isValid is false even with a default.        *)
C14_RequiredMissing ==
  ValidationReturned =>
    \A c \in ValidateCalls :
      (IsRequired(c) /\ c.given \in {Undef, Null}) =>
        /\ c.step.errors = <<c.step.key \o " is required">>
        /\ Occurrences(outcome.errors, c.path \o " is required") = 1
        /\ c.step.ret = FallsBackTo(c)
        /\ Stored(c)
        /\ c.step.checks = {}
        /\ ~outcome.isValid

\* {a: null} against {a: {required: true, type: 'number', default: 1}}
C14_Witness ==
  /\ ValidationReturned
  /\ At(config, "a") = Null
  /\ Len(schema) = 1 /\ schema[1].key = "a"
  /\ schema[1].rule = MkRule(<<"number">>, <<TRUE>>, <<Num(1)>>, <<>>, <<>>, <<>>)
  /\ outcome.errors = <<"a is required">>
  /\ At(outcome.validated, "a") = Num(1)
  /\ ~outcome.isValid

(* C15: for a non-required rule with a defined default, an absent value     *)
(* makes validated.k the default with no transform, type, validator or      *)
(* children check run against it and no error, whatever the default is;     *)
(* absent without a default, validated.k stays absent with no error.        *)
C15_DefaultTrusted ==
  ValidationReturned =>
    \A c \in ValidateCalls :
      (~IsRequired(c) /\ c.given = Undef) =>
        /\ c.step.ret = FallsBackTo(c)
        /\ Stored(c)
        /\ c.step.errors = <<>>
        /\ c.step.checks = {}

\* {} against {a: {type: 'number', default: 'd', validator: isTwo}}
C15_Witness ==
  /\ ValidationReturned
  /\ "a" \notin DOMAIN config.f
  /\ Len(schema) = 1 /\ schema[1].key = "a"
  /\ schema[1].rule = MkRule(<<"number">>, <<>>, <<Str("d")>>, <<>>, <<"isTwo">>, <<>>)
  /\ At(outcome.validated, "a") = Str("d")
  /\ outcome.isValid

\* typeof value, with 'array' for a sequence
ActualType(v) ==
  CASE v.t = "array" -> "array"
    [] v.t \in {"object", "null"} -> "object"
    [] OTHER -> v.t

\* the value of a call after the rule's transform
Transformed(c) ==
  IF "transform" \in DOMAIN c.step.rule
  THEN ApplyTransformer(c.step.rule.transform, c.given)
  ELSE c.given

\* the value of the call is there for the checks: not absent, and not a null
\* under required
Present(c) == c.given # Undef /\ ~(IsRequired(c) /\ c.given = Null)

(* C16: when a rule declares a type and the actual type of the present      *)
(* value, taken after the rule's transform and with sequences reported as   *)
(* 'array', differs from it, exactly one error "<path> should be <type>,    *)
(* got <actual>" is appended, validated.k becomes the rule's default        *)
(* (absent if none), and neither the validator nor the children run.        *)
C16_TypeMismatch ==
  ValidationReturned =>
    \A c \in ValidateCalls :
      (/\ Present(c)
       /\ "type" \in DOMAIN c.step.rule
       /\ ActualType(Transformed(c)) # c.step.rule.type) =>
        /\ c.step.errors =
             <<c.step.key \o " should be " \o c.step.rule.type \o ", got "
                 \o ActualType(Transformed(c))>>
        /\ Occurrences(outcome.errors,
             c.path \o " should be " \o c.step.rule.type \o ", got "
               \o ActualType(Transformed(c))) = 1
        /\ c.step.ret = FallsBackTo(c)
        /\ Stored(c)
        /\ c.step.checks \cap {"validator", "children"} = {}

\* {a: [1]} against {a: {type: 'object', validator: isTwo}}
C16_Witness ==
  /\ ValidationReturned
  /\ At(config, "a") = Arr(<<Num(1)>>)
  /\ Len(schema) = 1 /\ schema[1].key = "a"
  /\ schema[1].rule = MkRule(<<"object">>, <<>>, <<>>, <<>>, <<"isTwo">>, <<>>)
  /\ outcome.errors = <<"a should be object, got array">>
  /\ At(outcome.validated, "a") = Undef
  /\ "a" \in DOMAIN outcome.validated.f

\* the type is compared after the transform: {a: '2'} under parseInt is a number
C16_TransformWitness ==
  /\ ValidationReturned
  /\ At(config, "a") = Str("2")
  /\ Len(schema) = 1
  /\ schema[1].rule = MkRule(<<"string">>, <<>>, <<>>, <<"parseInt">>, <<>>, <<>>)
  /\ outcome.errors = <<"a should be string, got number">>

\* the errors of a sequence of calls, call after call
RECURSIVE ErrorsOf(_)
ErrorsOf(steps) ==
  IF steps = <<>> THEN <<>> ELSE Head(steps).errors \o ErrorsOf(Tail(steps))

\* the value of the call is a mapping that passed the type and the validator
\* of a rule with children
ChildrenApply(c) ==
  /\ Present(c)
  /\ "children" \in DOMAIN c.step.rule
  /\ IsMappingTree(Transformed(c))
  /\ "type" \in DOMAIN c.step.rule => c.step.rule.type = "object"
  /\ "validator" \in DOMAIN c.step.rule =>
       ApplyValidator(c.step.rule.validator, Transformed(c)) = Bool(TRUE)

(* C17: for a rule with children whose value is a mapping that passed the   *)
(* type and validator checks, the value is validated against children:      *)
(* every nested error e is appended as "<key>.<e>", so an error n levels    *)
(* deep carries the full dotted path; errors appear in schema key order     *)
(* with nested errors at the position of their parent key; validated.k is   *)
(* the nested validated document; a nested error makes isValid false.       *)
C17_ChildrenValidated ==
  ValidationReturned =>
    /\ Len(outcome.steps) = Len(schema)
    /\ \A i \in DOMAIN schema : outcome.steps[i].key = schema[i].key
    /\ outcome.errors = ErrorsOf(outcome.steps)
    /\ \A c \in ValidateCalls :
         ChildrenApply(c) =>
           LET nested == ValidateConfig(Transformed(c), c.step.rule.children)
           IN  /\ "children" \in c.step.checks
               /\ c.step.errors =
                    [j \in DOMAIN nested.errors |->
                       c.step.key \o "." \o nested.errors[j]]
               /\ Len(c.step.errors) = Len(ErrorsOf(c.step.sub))
               /\ \A j \in DOMAIN c.step.errors :
                    /\ c.step.errors[j] = c.step.key \o "." \o ErrorsOf(c.step.sub)[j]
                    /\ \E n \in DOMAIN outcome.errors :
                         outcome.errors[n] = c.prefix \o c.step.errors[j]
               /\ c.step.ret = nested.validated
               /\ Stored(c)
               /\ c.step.errors # <<>> => ~outcome.isValid

\* {a: {a: {b: 1}}} against a: {children: {b: required, a: {type: 'object',
\* children: {a: required}}}}
C17_Witness ==
  /\ ValidationReturned
  /\ config = Doc(<<Doc(<<Doc(<<>>, <<Num(1)>>)>>, <<>>)>>, <<>>)
  /\ Len(schema) = 1 /\ schema[1].key = "a"
  /\ DOMAIN schema[1].rule = {"children"}
  /\ outcome.errors = <<"a.b is required", "a.a.a is required">>
  /\ At(At(At(outcome.validated, "a"), "a"), "b") = Num(1)
  /\ ~outcome.isValid

SchemaKeys(sch) == {sch[i].key : i \in DOMAIN sch}

\* every key of cfg the schema does not name is in val with cfg's value, and
\* so it is inside every mapping that went through children
RECURSIVE UnknownKept(_, _, _, _)
UnknownKept(cfg, sch, val, steps) ==
  /\ IsMappingTree(val)
  /\ \A k \in DOMAIN cfg.f \ SchemaKeys(sch) :
       k \in DOMAIN val.f /\ val.f[k] = cfg.f[k]
  /\ \A i \in DOMAIN steps :
       ("children" \in steps[i].checks /\ IsMappingTree(steps[i].value)) =>
         UnknownKept(steps[i].value, steps[i].rule.children,
                     At(val, steps[i].key), steps[i].sub)

(* C18: validation never discards unknown keys: each key of config that the *)
(* schema does not name appears in validated with exactly config's value,   *)
(* at the top level and inside every mapping validated through children.    *)
C18_UnknownKeysKept ==
  ValidationReturned => UnknownKept(config, schema, outcome.validated, outcome.steps)

\* {a: {a: 2, b: 1}, b: 1} against a: {children: {a: required}}
C18_Witness ==
  /\ ValidationReturned
  /\ config = Doc(<<Doc(<<Num(2)>>, <<Num(1)>>)>>, <<Num(1)>>)
  /\ Len(schema) = 1 /\ schema[1].key = "a"
  /\ DOMAIN schema[1].rule = {"children"}
  /\ SchemaKeys(schema[1].rule.children) = {"a"}
  /\ "children" \in outcome.steps[1].checks
  /\ At(outcome.validated, "b") = Num(1)
  /\ At(At(outcome.validated, "a"), "b") = Num(1)

(* C19: validateConfig never throws for a rule violation: for every config, *)
(* explicit null under a rule with type 'object' and children included, and *)
(* every schema whose transform and validator functions do not throw, it    *)
(* returns a result {isValid, errors, validated}.                           *)
C19_NeverThrows ==
  pc # "ready" =>
    /\ pc = "validated"
    /\ ~outcome.thrown
    /\ outcome.isValid = (outcome.errors = <<>>)

-----------------------------------------------------------------------------
(* The loader LDesignConfig (src/unnamed/part_005:324-724) and file         *)
(* discovery (src/src/utils.ts:175-306).  A path is the pair of the          *)
(* environment in the file name (none for a base file) and the extension;   *)
(* the disk maps the paths that exist to the documents their parsers give.  *)

\* the default of options.extensions
Extensions == <<"ts", "js", "json", "json5", "yaml", "yml", "env">>

\* resolve(configDir, `${name}.config.${env}.${ext}`), or without the env part
Path(env, ext) == [env |-> env, ext |-> ext]

\* getConfigFormat(filePath), for the extensions the loader looks for
GetConfigFormat(ext) == IF ext = "yml" THEN "yaml" ELSE ext

\* generateConfigPaths(configDir, name, env, extensions)
GenerateConfigPaths(env, extensions) ==
  [i \in DOMAIN extensions |-> Path(env, extensions[i])]

priorityOrder == <<"env", "yml", "yaml", "json5", "json", "js", "ts">>

\* the position of x in seq, as indexOf orders positions; 0 when it is not there
IndexOf(seq, x) ==
  IF \E i \in DOMAIN seq : seq[i] = x
  THEN CHOOSE i \in DOMAIN seq : seq[i] = x
  ELSE 0

\* files.sort((a, b) => indexA - indexB): a stable sort by format priority
RECURSIVE SortByPriority(_)
SortByPriority(files) ==
  IF files = <<>> THEN <<>>
  ELSE LET last == files[Len(files)]
           front == SortByPriority(SubSeq(files, 1, Len(files) - 1))
           NotAfter(f) == IndexOf(priorityOrder, f.format)
                            <= IndexOf(priorityOrder, last.format)
           After(f) == ~NotAfter(f)
       IN  SelectSeq(front, NotAfter) \o <<last>> \o SelectSeq(front, After)

\* the ConfigFileInfo of the paths that exist
ExistingFiles(fs, paths, isBase) ==
  LET Exists(p) == p \in DOMAIN fs
      found == SelectSeq(paths, Exists)
  IN  [i \in DOMAIN found |->
         [path |-> found[i], format |-> GetConfigFormat(found[i].ext),
          ext |-> found[i].ext, isBase |-> isBase, env |-> found[i].env]]

\* findConfigFiles(name, configDir, env, extensions); env is <<>> when undefined
FindConfigFiles(fs, env, extensions) ==
  LET baseFiles == ExistingFiles(fs, GenerateConfigPaths(<<>>, extensions), TRUE)
      envFiles == IF env # <<>>
                  THEN ExistingFiles(fs, GenerateConfigPaths(env, extensions), FALSE)
                  ELSE <<>>
  IN  SortByPriority(baseFiles \o envFiles)

\* the files merged in the order found
LoadOrderAsFound(files, env) == files

\* the order loadConfig parses the files in: files.filter(f => f.isBase), then
\* files.filter(f => !f.isBase && f.env === env) (part_005:601, 621)
LoadOrder(files, env) ==
  LET IsBase(f) == f.isBase
      IsEnv(f) == ~f.isBase /\ f.env = env
  IN  SelectSeq(files, IsBase) \o SelectSeq(files, IsEnv)

\* the document a merge returned, as a value
TreeOf(m) == Tree(m.h, m.r)

\* configs.push(config) (part_005:612, 632)
Pushed(acc, cfg) == [h |-> cfg.h, configs |-> Append(acc.configs, cfg.r)]

\* one file parsed: the transformers, if there are any, then the push
\* (part_005:608-612, 628-632)
Transformed1(acc, parsed, transformers) ==
  Pushed(acc,
         IF DOMAIN transformers # {}
         THEN TransformMerge([h |-> parsed.h, log |-> <<>>], parsed.r, parsed.r,
                             transformers, DefaultOptions)
         ELSE parsed)

\* parseFile, resolveConfig and the transformers, file after file
\* (part_005:602-618, 622-638)
RECURSIVE LoadFiles(_, _, _, _)
LoadFiles(acc, fs, files, transformers) ==
  IF files = <<>> THEN acc
  ELSE LoadFiles(Transformed1(acc, Build(acc.h, fs[Head(files).path]), transformers),
                 fs, Tail(files), transformers)

\* mergedConfig = deepMerge(mergedConfig, config, mergeOptions) for each config
\* (part_005:641-644)
RECURSIVE MergeConfigs(_, _, _)
MergeConfigs(mergedConfig, configs, opts) ==
  IF configs = <<>> THEN mergedConfig
  ELSE MergeConfigs(DeepMerge([h |-> mergedConfig.h, log |-> <<>>], mergedConfig.r,
                              Head(configs), opts, <<>>),
                    Tail(configs), opts)

\* errors.join(sep)
RECURSIVE Join(_, _)
Join(errors, sep) ==
  IF errors = <<>> THEN ""
  ELSE IF Len(errors) = 1 THEN errors[1]
  ELSE errors[1] \o sep \o Join(Tail(errors), sep)

\* what loadConfig does with the result of validateConfig (part_005:580-585,
\* 649-654); an error thrown by validateConfig rejects the load as well
Checked(validation) ==
  IF validation.thrown
  THEN [rejected |-> TRUE, message |-> "TypeError"]
  ELSE IF ~validation.isValid
  THEN [rejected |-> TRUE,
        message |-> "Configuration validation failed: "
                      \o Join(validation.errors, ", ")]
  ELSE [rejected |-> FALSE, config |-> validation.validated]

\* the validation step of loadConfig (part_005:578-586, 647-655)
CheckedConfig(mergedConfig, validationSchema) ==
  IF validationSchema = <<>> THEN [rejected |-> FALSE, config |-> mergedConfig]
  ELSE Checked(ValidateConfig(mergedConfig, validationSchema[1]))

\* the value loadConfig resolves with, or the rejection (part_005:657-661).
\* Besides {config, files, env} it records the files in the order they were
\* merged, the document each gave after the transformers, and the merged
\* document before validation.
LoadResult(files, order, env, docs, mergedConfig, checked) ==
  IF checked.rejected
  THEN [rejected |-> TRUE, message |-> checked.message]
  ELSE [rejected |-> FALSE, config |-> checked.config, files |-> files,
        env |-> env, order |-> order, configs |-> docs, merged |-> mergedConfig]

\* the merge and the validation of the documents loaded (part_005:641-661)
MergeLoaded(files, order, env, loadedFiles, mergedConfig, lopts) ==
  LoadResult(files, order, env,
             [i \in DOMAIN loadedFiles.configs |->
                Tree(loadedFiles.h, loadedFiles.configs[i])],
             mergedConfig,
             CheckedConfig(mergedConfig, lopts.validationSchema))

\* the documents of the files loaded in order, then merged from {}
LoadOrdered(fs, files, order, env, empty, loadedFiles, lopts) ==
  MergeLoaded(files, order, env, loadedFiles,
              TreeOf(MergeConfigs([h |-> loadedFiles.h, r |-> empty.r],
                                 loadedFiles.configs, lopts.mergeOptions)),
              lopts)

\* loadConfig(env) (part_005:564-662)
LoadConfig(fs, env, lopts) ==
  LET files == FindConfigFiles(fs, env, lopts.extensions)
      order == LoadOrder(files, env)
      empty == Alloc(<<>>, ObjCell(EmptyFields))
  IN  LoadOrdered(fs, files, order, env, empty,
                  LoadFiles([h |-> empty.h, configs |-> <<>>], fs, order,
                            lopts.transformers),
                  lopts)

-----------------------------------------------------------------------------
(* The disks and loader options the loader is run on *)

\* new LDesignConfig(name, options): the defaults of the constructor
\* (part_005:340-350) with the given merge options, transformers and schema
MkLoaderOptions(mo, tr, vs) ==
  [extensions |-> Extensions, watch |-> FALSE, mergeOptions |-> mo,
   transformers |-> tr, validationSchema |-> vs, templates |-> <<>>]

\* the options with templates: [...] given
WithTemplates(o, ts) == [o EXCEPT !.templates = ts]

NoTransformers == [k \in {} |-> "none"]

ExtensionSet == {Extensions[i] : i \in DOMAIN Extensions}

\* documents a parser gives: an .env file holds strings only
DocsFor(ext) ==
  IF ext = "env"
  THEN {Obj("a" :> Str("2")), Obj(("a" :> Str("x")) @@ ("b" :> Str("2")))}
  ELSE {Obj(("a" :> Num(1)) @@ ("b" :> Num(1))),
        Obj("a" :> Num(2)),
        Obj("a" :> Obj(("a" :> Num(1)) @@ ("b" :> Num(1)))),
        Obj(("a" :> Obj("a" :> Num(2))) @@ ("b" :> Null))}

\* one base file and one file for dev, in every pair of formats
FormatDisks ==
  UNION {{(Path(<<>>, fb) :> db) @@ (Path(<<"dev">>, fe) :> de) :
            db \in DocsFor(fb), de \in DocsFor(fe)} :
         fb \in ExtensionSet, fe \in ExtensionSet}

ExtPairs ==
  {<<"json", "ts">>, <<"ts", "json">>, <<"yml", "yaml">>, <<"js", "json5">>,
   <<"json5", "json">>}

\* up to two base files, up to two files for dev, and a file for prod
SeveralDisks ==
  LET BaseFiles(b) == (Path(<<>>, b[1]) :> Obj(("a" :> Num(1)) @@ ("b" :> Num(1))))
                      @@ (Path(<<>>, b[2]) :> Obj("a" :> Num(2)))
      DevFiles(e) == (Path(<<"dev">>, e[1]) :> Obj("a" :> Str("x")))
                     @@ (Path(<<"dev">>, e[2]) :> Obj("b" :> Num(2)))
      ProdFile == Path(<<"prod">>, "json") :> Obj("a" :> Str("p"))
  IN  {BaseFiles(b) @@ DevFiles(e) @@ ProdFile : b \in ExtPairs, e \in ExtPairs}
      \cup {BaseFiles(b) @@ ProdFile : b \in ExtPairs}
      \cup {DevFiles(e) @@ ProdFile : e \in ExtPairs}
      \cup {<<>>}

LoaderMergeOptions ==
  {DefaultOptions,
   MkOptions(<<"replace">>, <<>>, <<>>, <<>>, <<>>),
   MkOptions(<<"shallow">>, <<>>, <<>>, <<>>, <<>>),
   MkOptions(<<>>, <<"concat">>, <<>>, <<>>, <<>>),
   MkOptions(<<>>, <<>>, <<"a" :> "keepTarget">>, <<>>, <<>>),
   MkOptions(<<>>, <<>>, <<>>, <<{"a"}>>, <<>>),
   MkOptions(<<>>, <<>>, <<>>, <<>>, <<{"a"}>>)}

\* a loader with merge options, transformers and a schema of its own
OptionInputs ==
  {[d |-> (Path(<<>>, fs[1]) :> db) @@ (Path(<<"dev">>, fs[2]) :> de),
    o |-> MkLoaderOptions(mo, tr, vs)] :
     fs \in {<<"ts", "json">>, <<"json", "yaml">>},
     db \in {Obj(("a" :> Num(1)) @@ ("b" :> Num(1))),
             Obj(("a" :> Str("2")) @@ ("b" :> Num(1)))},
     de \in {Obj("a" :> Num(2)), Obj("a" :> Str("2"))},
     mo \in LoaderMergeOptions,
     tr \in {NoTransformers, "a" :> "parseInt"},
     vs \in {<<>>,
             <<<<Entry("a", MkRule(<<"number">>, <<>>, <<>>, <<>>, <<>>, <<>>))>>>>,
             <<<<Entry("a", MkRule(<<>>, <<>>, <<>>, <<"parseInt">>, <<>>, <<>>)),
                 Entry("b", MkRule(<<>>, <<TRUE>>, <<>>, <<>>, <<>>, <<>>))>>>>}}

\* schemas with defaults and with children, on files that hold a mapping, a
\* null or nothing under the key
SchemaInputs ==
  {[d |-> IF db = <<>> THEN <<>> ELSE Path(<<>>, "yaml") :> db[1],
    o |-> MkLoaderOptions(DefaultOptions, NoTransformers, <<vs>>)] :
     db \in {<<>>,
             <<Obj("a" :> Num(1))>>,
             <<Obj(("a" :> Obj("a" :> Num(2))) @@ ("b" :> Null))>>,
             <<Obj(("a" :> Num(1)) @@ ("b" :> Obj("a" :> Str("x"))))>>},
     vs \in {<<Entry("b", MkRule(<<>>, <<>>, <<Str("d")>>, <<>>, <<>>, <<>>))>>,
             <<Entry("a", MkRule(<<>>, <<TRUE>>, <<>>, <<>>, <<>>, <<>>)),
               Entry("b", MkRule(<<"object">>, <<TRUE>>, <<>>, <<>>, <<>>, <<>>))>>,
             <<Entry("b", MkRule(<<"object">>, <<>>, <<>>, <<>>, <<>>,
                  <<<<Entry("a", MkRule(<<"number">>, <<>>, <<Num(1)>>, <<>>, <<>>,
                                       <<>>))>>>>))>>}}

\* a ConfigTemplate (utils.ts:424-429): its condition and its body
MkTemplate(c, body) == [condition |-> c, template |-> body]

\* loaders with templates, on files that hold or miss the section a
TemplateInputs ==
  {[d |-> IF db = <<>> THEN <<>> ELSE Path(<<>>, "json") :> db[1],
    o |-> WithTemplates(MkLoaderOptions(DefaultOptions, NoTransformers, <<>>), ts)] :
     db \in {<<>>, <<Obj("b" :> Num(1))>>, <<Obj("a" :> Obj("b" :> Num(2)))>>},
     ts \in {<<MkTemplate(c, Obj("a" :> Obj("a" :> Num(1))))>> :
               c \in TemplateConditions}
            \cup {<<MkTemplate("missingA", Obj("a" :> Obj("a" :> Num(1)))),
                    MkTemplate("always", Obj("b" :> Num(2)))>>}}

LoaderInputs ==
  {[d |-> d, o |-> MkLoaderOptions(DefaultOptions, NoTransformers, <<>>)] :
     d \in FormatDisks \cup SeveralDisks}
  \cup OptionInputs
  \cup SchemaInputs
  \cup TemplateInputs

\* the environments getConfig is asked for; <<>> is a call without argument
EnvArgs == {<<>>, <<"dev">>, <<"prod">>}

-----------------------------------------------------------------------------
(* The loader as a state machine *)

\* validateConfig is not called on its own
ValidateIdle ==
  /\ config = Undef
  /\ schema = <<>>
  /\ outcome = Undef

InitLoad ==
  /\ \E in \in LoaderInputs : disk = in.d /\ loaderOptions = in.o
  /\ nodeEnv \in {<<>>, <<"dev">>}
  /\ configCache = <<>>
  /\ reply = Undef
  /\ pc = "ready"
  /\ MergeIdle
  /\ ValidateIdle
  /\ AsyncIdle
  /\ WatcherIdle

\* getConfig(env) (part_005:372-407); the loader is built with watch: false,
\* so no watcher is set up
GetConfig(env) ==
  LET targetEnv == IF env # <<>> THEN env ELSE nodeEnv
      cacheKey == IF targetEnv # <<>> THEN targetEnv[1] ELSE "default"
  IN  /\ pc = "ready"
      /\ IF cacheKey \in DOMAIN configCache
         THEN /\ reply' = [op |-> "getConfig", env |-> env, cached |-> TRUE,
                           rejected |-> FALSE, result |-> configCache[cacheKey]]
              /\ UNCHANGED configCache
         ELSE \E loaded \in {LoadConfig(disk, targetEnv, loaderOptions)} :
                IF loaded.rejected
                THEN /\ reply' = [op |-> "getConfig", env |-> env, cached |-> FALSE,
                                  rejected |-> TRUE, message |-> loaded.message]
                     /\ UNCHANGED configCache
                ELSE /\ reply' = [op |-> "getConfig", env |-> env, cached |-> FALSE,
                                  rejected |-> FALSE, result |-> loaded]
                     /\ configCache' = (cacheKey :> loaded) @@ configCache
      /\ UNCHANGED <<pc, disk, nodeEnv, loaderOptions, mergeVars, validateVars,
                     asyncVars, watcherVars>>

NextLoad == \E env \in EnvArgs : GetConfig(env)

SpecLoad == InitLoad /\ [][NextLoad]_vars

-----------------------------------------------------------------------------
(* Vocabulary of the loader properties *)

\* the last getConfig call resolved
GotConfig == "op" \in DOMAIN reply /\ ~reply.rejected

\* the documents merged left to right onto acc, each merge done on its own
RECURSIVE FoldDocs(_, _, _)
FoldDocs(docs, opts, acc) ==
  IF docs = <<>> THEN acc
  ELSE FoldDocs(Tail(docs), opts, MergeOfTrees(acc, Head(docs), opts))

\* the loader has no transformers and no validation schema
PlainLoader ==
  /\ DOMAIN loaderOptions.transformers = {}
  /\ loaderOptions.validationSchema = <<>>

\* the configured merge options keep the right bias of the deep and shallow
\* strategies: no replace, no key filter, no custom merger
RightBiasedOptions ==
  /\ Opt(loaderOptions.mergeOptions, "strategy", "deep") # "replace"
  /\ DOMAIN loaderOptions.mergeOptions
       \cap {"skipKeys", "onlyKeys", "customMergers"} = {}

\* every base file is merged before every environment file, each existing file
\* of the base and of the target environment once, and the merged document is
\* the left-to-right accumulation from {} under the configured merge options
MergedBaseThenEnv(r) ==
  /\ \A i, j \in DOMAIN r.order : (i < j) => (r.order[i].isBase \/ ~r.order[j].isBase)
  /\ {r.order[i].path : i \in DOMAIN r.order} =
       {p \in DOMAIN disk : p.env = <<>> \/ p.env = r.env}
  /\ Len(r.order) = Cardinality({p \in DOMAIN disk : p.env = <<>> \/ p.env = r.env})
  /\ Len(r.configs) = Len(r.order)
  /\ DOMAIN loaderOptions.transformers = {} =>
       \A i \in DOMAIN r.order : r.configs[i] = disk[r.order[i].path]
  /\ r.merged = FoldDocs(r.configs, loaderOptions.mergeOptions, Obj(EmptyFields))
  /\ loaderOptions.validationSchema = <<>> => r.config = r.merged

\* the files of r, by position in the merge, that hold key k
Holders(r, k, isBase) ==
  {i \in DOMAIN r.order : r.order[i].isBase = isBase /\ At(r.configs[i], k) # Undef}

Last(S) == CHOOSE i \in S : \A j \in S : j <= i

\* a scalar key of a base file and of the environment file has the environment
\* file's value, and a key of the base files alone is kept
EnvOverridesBase(r) ==
  \A k \in Keys :
    LET inBase == Holders(r, k, TRUE)
        inEnv == Holders(r, k, FALSE)
        baseCount == Cardinality({i \in DOMAIN r.order : r.order[i].isBase})
        baseOnly == FoldDocs(SubSeq(r.configs, 1, baseCount),
                             loaderOptions.mergeOptions, Obj(EmptyFields))
    IN  /\ (/\ \E i \in inBase : IsScalarTree(At(r.configs[i], k))
            /\ inEnv # {}
            /\ IsScalarTree(At(r.configs[Last(inEnv)], k)))
           => At(r.config, k) = At(r.configs[Last(inEnv)], k)
        /\ (inBase # {} /\ inEnv = {})
           => /\ k \in DOMAIN r.config.f
              /\ At(r.config, k) = At(baseOnly, k)

(* C20 as stated: getConfig(env) merges every base file before every        *)
(* environment file, accumulating left to right from an empty document      *)
(* with the configured merge options, so a scalar key of a base file and of *)
(* an environment file has the environment file's value whatever the        *)
(* formats, and keys of base files alone are kept.                          *)
C20_EnvAlwaysOverrides ==
  (GotConfig /\ PlainLoader) =>
    /\ MergedBaseThenEnv(reply.result)
    /\ EnvOverridesBase(reply.result)

(* C20, amended: getConfig(env) merges every base file before every         *)
(* environment file, accumulating left to right from an empty document      *)
(* with the configured merge options; when these keep the deep or shallow   *)
(* strategy without skipKeys, onlyKeys or customMergers (and the loader has *)
(* no transformers and no schema), a scalar key of a base file and of an    *)
(* environment file has the environment file's value whatever the formats,  *)
(* and keys of base files alone are kept.                                   *)
C20_BaseThenEnv ==
  GotConfig =>
    /\ MergedBaseThenEnv(reply.result)
    /\ (PlainLoader /\ RightBiasedOptions) => EnvOverridesBase(reply.result)

\* app.config.ts {a: 1, b: 1} and app.config.dev.env {a: '2'}: the .env file
\* sorts first and is merged last
C20_Witness ==
  /\ GotConfig
  /\ ~reply.cached
  /\ reply.env = <<"dev">>
  /\ PlainLoader /\ RightBiasedOptions
  /\ DOMAIN disk = {Path(<<>>, "ts"), Path(<<"dev">>, "env")}
  /\ disk[Path(<<>>, "ts")] = Obj(("a" :> Num(1)) @@ ("b" :> Num(1)))
  /\ disk[Path(<<"dev">>, "env")] = Obj("a" :> Str("2"))
  /\ reply.result.files[1].path = Path(<<"dev">>, "env")
  /\ reply.result.order[1].path = Path(<<>>, "ts")
  /\ reply.result.config = Obj(("a" :> Str("2")) @@ ("b" :> Num(1)))

-----------------------------------------------------------------------------
\* the position of the format of f in the sort order of findConfigFiles
Priority(f) == IndexOf(priorityOrder, f.format)

(* C21: the sequence findConfigFiles returns (the files of the result of    *)
(* getConfig) holds every base file before every environment-specific file, *)
(* and within each of the two groups the files are ordered by the priority  *)
(* of their formats, from lowest to highest.                                *)
C21_BaseFilesFirst ==
  GotConfig =>
    LET files == reply.result.files
    IN  \A i, j \in DOMAIN files :
          (i < j) =>
            /\ files[i].isBase \/ ~files[j].isBase
            /\ (files[i].isBase = files[j].isBase)
                 => Priority(files[i]) <= Priority(files[j])

-----------------------------------------------------------------------------
\* the precedence of the formats as the guide states it, lowest first
\* (docs/guide/getting-started.md:303-317)
DocumentedPrecedence == <<"env", "yaml", "json", "json5", "js", "ts">>

\* the files of result r in the group of base files (or of environment files)
\* that hold a scalar under key k
ScalarHolders(r, k, isBase) ==
  {i \in Holders(r, k, isBase) : IsScalarTree(At(r.configs[i], k))}

\* file i of r has, of the files in S, the format of the highest documented
\* precedence, and no other file of S has that format
Foremost(r, S, i) ==
  /\ i \in S
  /\ \A j \in S \ {i} :
       IndexOf(DocumentedPrecedence, r.order[j].format)
         < IndexOf(DocumentedPrecedence, r.order[i].format)

(* C22: when files of several formats exist for the same name and           *)
(* environment, the precedence is ts > js > json5 > json > yaml/yml > env:  *)
(* a scalar key that two or more such files define has in the config        *)
(* getConfig returns the value of the file of the highest precedence (here  *)
(* for a loader with default merge options, no transformers and no schema,  *)
(* and for the group of files merged last among those that hold the key).   *)
C22_FormatPrecedence ==
  (GotConfig /\ PlainLoader /\ loaderOptions.mergeOptions = DefaultOptions) =>
    LET r == reply.result
    IN  \A k \in Keys : \A isBase \in BOOLEAN :
          LET S == Holders(r, k, isBase)
          IN  (/\ Cardinality(S) >= 2
               /\ S = ScalarHolders(r, k, isBase)
               /\ isBase => Holders(r, k, FALSE) = {})
              => \A i \in S : Foremost(r, S, i)
                                => At(r.config, k) = At(r.configs[i], k)

-----------------------------------------------------------------------------
\* the environment the last getConfig call loaded for, and its cache key
\* (part_005:373-374)
TargetEnv == IF reply.env # <<>> THEN reply.env ELSE nodeEnv

CacheKey == IF TargetEnv # <<>> THEN TargetEnv[1] ELSE "default"

\* the last getConfig call ran loadConfig
Loaded == "op" \in DOMAIN reply /\ ~reply.cached

\* the document loadConfig hands to validateConfig: what the same files give
\* to a loader without a schema ({} when no file exists)
MergedDocument ==
  LoadConfig(disk, TargetEnv,
             [loaderOptions EXCEPT !.validationSchema = <<>>]).merged

\* the outcome v of validateConfig says the document is not valid
ReportsInvalid(v) == ~v.thrown /\ ~v.isValid

\* the getConfig call that ran the load failed fast on the outcome v of
\* validateConfig on the merged document
FailsFast(v) ==
  /\ reply.rejected <=> ReportsInvalid(v)
  /\ reply.rejected =>
       /\ ReportsInvalid(v) =>
            reply.message = "Configuration validation failed: "
                              \o Join(v.errors, ", ")
       /\ CacheKey \notin DOMAIN configCache
  /\ ~reply.rejected => reply.result.config = v.validated

(* C23: with a validation schema configured, getConfig fails fast: the call *)
(* rejects exactly when validateConfig on the merged document (the empty    *)
(* document when no file exists) reports isValid false, the message holds   *)
(* every entry of errors joined by a delimiter, a rejected load stores      *)
(* nothing in the cache (a later getConfig for the environment loads        *)
(* again), and when validation passes the config returned is the validated  *)
(* document with the defaults filled.                                       *)
C23_FailFast ==
  (Loaded /\ loaderOptions.validationSchema # <<>>) =>
    FailsFast(ValidateConfig(MergedDocument, loaderOptions.validationSchema[1]))

-----------------------------------------------------------------------------
\* template.condition(config) on the document doc
TemplateHolds(template, doc) ==
  LET built == Build(<<>>, doc)
  IN  TemplateCondition(template.condition, built.h, built.r)

\* the body of the template is merged into the document doc: every key of the
\* body is a key of doc, with the body's value where that is a scalar and a
\* mapping where the body holds a mapping
BodyMergedIn(template, doc) ==
  \A k \in DOMAIN template.template.f :
    /\ k \in DOMAIN doc.f
    /\ IF IsScalarTree(At(template.template, k))
       THEN At(doc, k) = At(template.template, k)
       ELSE At(doc, k).t = At(template.template, k).t

(* C24: the templates given in the options are applied to the loaded        *)
(* configuration: for every template whose condition holds on the merged    *)
(* configuration, the config getConfig returns holds the body of the        *)
(* template merged in (a missing section is filled from the template).      *)
C24_TemplatesApplied ==
  GotConfig =>
    \A i \in DOMAIN loaderOptions.templates :
      TemplateHolds(loaderOptions.templates[i], reply.result.merged)
        => BodyMergedIn(loaderOptions.templates[i], reply.result.config)

-----------------------------------------------------------------------------
\* no rule of the schema, at any level, has a transform function
RECURSIVE NoTransforms(_)
NoTransforms(sch) ==
  \A i \in DOMAIN sch :
    /\ ~RuleHas(sch[i].rule, "transform")
    /\ RuleHas(sch[i].rule, "children") => NoTransforms(sch[i].rule.children)

\* every default of the schema, at any level, passes its own rule when it is
\* validated as a value, and comes back unchanged
RECURSIVE DefaultsConform(_)
DefaultsConform(sch) ==
  \A i \in DOMAIN sch :
    /\ RuleHas(sch[i].rule, "default") =>
         LET st == ValidateValue(sch[i].rule.default, sch[i].key, sch[i].rule,
                                 sch[i].key)
         IN  ~st.thrown /\ st.errors = <<>> /\ st.ret = sch[i].rule.default
    /\ RuleHas(sch[i].rule, "children") => DefaultsConform(sch[i].rule.children)

\* validating the validated document of v again under sch is valid, has no
\* errors and gives a deep-equal validated document
ValidAgain(v, sch) ==
  LET again == ValidateConfig(v.validated, sch)
  IN  /\ ~again.thrown
      /\ again.isValid
      /\ again.errors = <<>>
      /\ again.validated = v.validated

C30_ChildrenWitness ==
  /\ ValidationReturned
  /\ outcome.isValid
  /\ NoTransforms(schema)
  /\ DefaultsConform(schema)
  /\ \E i \in DOMAIN outcome.steps :
       /\ "children" \in outcome.steps[i].checks
       /\ outcome.steps[i].sub # <<>>
       /\ outcome.steps[i].ret # outcome.steps[i].value
  /\ ValidAgain(outcome, schema)

-----------------------------------------------------------------------------
(* The loader with calls in progress.  getConfig and the watch callback are  *)
(* async functions: each runs to its first await when it is called, and its *)
(* continuation runs later, when the promise of loadConfig settles.  The     *)
(* files are read while loadConfig awaits parseFile and resolveConfig        *)
(* (part_005:604-605, 624-625); a config file that exports an async function *)
(* keeps the load waiting for any length of time after its files are read,  *)
(* so a load is two steps: it reads the files, and later it returns.        *)

\* the loads in progress at once
MaxLoads == 2

\* the changes made to the files
MaxChanges == 2

\* targetEnv and cacheKey (part_005:373-374, 413-414)
TargetOf(env) == IF env # <<>> THEN env ELSE nodeEnv

KeyOf(targetEnv) == IF targetEnv # <<>> THEN targetEnv[1] ELSE "default"

FreeIds == (1..MaxLoads) \ DOMAIN inFlight

\* the first n of the free ids
NewIds(n) ==
  CHOOSE S \in SUBSET FreeIds :
    /\ Cardinality(S) = n
    /\ \A i \in S : \A j \in FreeIds \ S : i < j

\* loadConfig(targetEnv) called: the files are found and read (part_005:564-638)
LoadStarted(op, env, targetEnv) ==
  [op |-> op, env |-> env, target |-> targetEnv, key |-> KeyOf(targetEnv),
   readAt |-> changes, loaded |-> LoadConfig(disk, targetEnv, loaderOptions)]

\* n loads begun, all alike
Started(n, load) == [i \in NewIds(n) |-> load] @@ inFlight

\* the promise of load id settles and its caller goes on
Settled(id) == [i \in DOMAIN inFlight \ {id} |-> inFlight[i]]

\* what getConfig or reloadConfig gives its caller
Reply(load, cached, answer) ==
  IF answer.rejected
  THEN [op |-> load.op, env |-> load.env, target |-> load.target,
        cached |-> cached, rejected |-> TRUE, message |-> answer.message]
  ELSE [op |-> load.op, env |-> load.env, target |-> load.target,
        cached |-> cached, rejected |-> FALSE, result |-> answer]

\* getConfig(env) up to its first await (part_005:372-385): a cache hit
\* returns, a miss calls loadConfig
GetConfigCalled(env) ==
  /\ pc = "ready"
  /\ IF KeyOf(TargetOf(env)) \in DOMAIN configCache
     THEN /\ reply' = Reply([op |-> "getConfig", env |-> env,
                             target |-> TargetOf(env)],
                            TRUE, configCache[KeyOf(TargetOf(env))])
          /\ UNCHANGED inFlight
     ELSE /\ FreeIds # {}
          /\ inFlight' = Started(1, LoadStarted("getConfig", env, TargetOf(env)))
          /\ UNCHANGED reply
  /\ UNCHANGED <<pc, disk, nodeEnv, loaderOptions, configCache, loaderWatcher,
                 pendingPaths, changes, notified, cacheRead, mergeVars,
                 validateVars, watcherVars>>

\* reloadConfig(env) up to its first await (part_005:412-422): the entry is
\* deleted and getConfig(targetEnv), called at once, misses the cache
ReloadConfigCalled(env) ==
  /\ pc = "ready"
  /\ FreeIds # {}
  /\ configCache' = [k \in DOMAIN configCache \ {KeyOf(TargetOf(env))} |->
                       configCache[k]]
  /\ cacheRead' = [k \in DOMAIN cacheRead \ {KeyOf(TargetOf(env))} |-> cacheRead[k]]
  /\ inFlight' = Started(1, LoadStarted("reloadConfig", env, TargetOf(env)))
  /\ UNCHANGED <<pc, disk, nodeEnv, loaderOptions, reply, loaderWatcher,
                 pendingPaths, changes, notified, mergeVars, validateVars,
                 watcherVars>>

\* the continuation of getConfig when loadConfig has settled (part_005:386-406,
\* and 425-427 when reloadConfig called it): the result is cached and returned,
\* and the watcher is set up when files are to be watched and none is
GetConfigReturned(id) ==
  /\ id \in DOMAIN inFlight
  /\ inFlight[id].op \in {"getConfig", "reloadConfig"}
  /\ reply' = Reply(inFlight[id], FALSE, inFlight[id].loaded)
  /\ IF inFlight[id].loaded.rejected
     THEN UNCHANGED <<configCache, cacheRead, loaderWatcher>>
     ELSE /\ configCache' = (inFlight[id].key :> inFlight[id].loaded) @@ configCache
          /\ cacheRead' = (inFlight[id].key :> inFlight[id].readAt) @@ cacheRead
          /\ loaderWatcher' = IF loaderOptions.watch /\ loaderWatcher = <<>>
                              THEN <<inFlight[id].target>>
                              ELSE loaderWatcher
  /\ inFlight' = Settled(id)
  /\ UNCHANGED <<pc, disk, nodeEnv, loaderOptions, pendingPaths, changes,
                 notified, mergeVars, validateVars, watcherVars>>

\* clearCache() (part_005:502-506)
ClearCache ==
  /\ pc = "ready"
  /\ configCache' = <<>>
  /\ cacheRead' = <<>>
  /\ UNCHANGED <<pc, disk, nodeEnv, loaderOptions, reply, inFlight,
                 loaderWatcher, pendingPaths, changes, notified, mergeVars,
                 validateVars, watcherVars>>

\* the document a config file is rewritten to
ChangedDocs == {Obj("a" :> Num(3))}

\* a config file is written; a watcher that is set up stores the event and
\* (re)starts its debounce timer (watcher.ts:196-220; the SmartConfigWatcher
\* watches the files and the directory, watcher.ts:259-267)
FileChanged(path, doc) ==
  /\ pc = "ready"
  /\ changes < MaxChanges
  /\ IF path \in DOMAIN disk THEN disk[path] # doc ELSE TRUE
  /\ disk' = (path :> doc) @@ disk
  /\ changes' = changes + 1
  /\ pendingPaths' = IF loaderWatcher # <<>> THEN pendingPaths \cup {path}
                     ELSE pendingPaths
  /\ UNCHANGED <<pc, nodeEnv, loaderOptions, configCache, reply, inFlight,
                 loaderWatcher, notified, cacheRead, mergeVars, validateVars,
                 watcherVars>>

\* the debounce timer fires (watcher.ts:210-219): the watch callback of
\* setupWatcher runs once for each pending path, each time up to its await
\* (part_005:696-702): clearCache(), then loadConfig(env) is called
WatchCallbackCalled ==
  /\ pc = "ready"
  /\ pendingPaths # {}
  /\ Cardinality(pendingPaths) <= Cardinality(FreeIds)
  /\ configCache' = <<>>
  /\ cacheRead' = <<>>
  /\ notified' = changes
  /\ inFlight' = Started(Cardinality(pendingPaths),
                         LoadStarted("watch", loaderWatcher[1], loaderWatcher[1]))
  /\ pendingPaths' = {}
  /\ UNCHANGED <<pc, disk, nodeEnv, loaderOptions, reply, loaderWatcher, changes,
                 mergeVars, validateVars, watcherVars>>

\* the continuation of the watch callback (part_005:703-714): 'change' is
\* emitted with the result, or 'error'; nothing is cached
WatchCallbackReturned(id) ==
  /\ id \in DOMAIN inFlight
  /\ inFlight[id].op = "watch"
  /\ reply' = Reply(inFlight[id], FALSE, inFlight[id].loaded)
  /\ inFlight' = Settled(id)
  /\ UNCHANGED <<pc, disk, nodeEnv, loaderOptions, configCache, loaderWatcher,
                 pendingPaths, changes, notified, cacheRead, mergeVars,
                 validateVars, watcherVars>>

\* the files the loader starts with
AsyncDisks ==
  {Path(<<>>, "json") :> Obj("a" :> Num(1)),
   (Path(<<>>, "json") :> Obj("a" :> Num(1)))
     @@ (Path(<<"default">>, "json") :> Obj("a" :> Num(2)))}

\* the files written later
AsyncPaths == {Path(<<>>, "json"), Path(<<"default">>, "json")}

\* the environments asked for; 'default' is a name like any other
AsyncEnvArgs == {<<>>, <<"default">>}

\* new LDesignConfig(name, {watch: true}), NODE_ENV not set
InitAsync ==
  /\ disk \in AsyncDisks
  /\ nodeEnv = <<>>
  /\ loaderOptions = [MkLoaderOptions(DefaultOptions, NoTransformers, <<>>)
                        EXCEPT !.watch = TRUE]
  /\ configCache = <<>>
  /\ reply = Undef
  /\ pc = "ready"
  /\ AsyncIdle
  /\ MergeIdle
  /\ ValidateIdle
  /\ WatcherIdle

NextAsync ==
  \/ \E env \in AsyncEnvArgs : GetConfigCalled(env)
  \/ \E env \in AsyncEnvArgs : ReloadConfigCalled(env)
  \/ \E id \in 1..MaxLoads : GetConfigReturned(id)
  \/ ClearCache
  \/ \E path \in AsyncPaths : \E doc \in ChangedDocs : FileChanged(path, doc)
  \/ WatchCallbackCalled
  \/ \E id \in 1..MaxLoads : WatchCallbackReturned(id)

SpecAsync == InitAsync /\ [][NextAsync]_vars

-----------------------------------------------------------------------------
\* the last call of getConfig or reloadConfig was answered from the cache
AnsweredFromCache == "op" \in DOMAIN reply /\ reply.cached

(* C25: the cache is keyed by environment name: after any sequence of       *)
(* getConfig, reloadConfig and clearCache calls, a getConfig(e) answered    *)
(* from the cache returns a result that was loaded for the same target      *)
(* environment e, a call without environment being an environment of its    *)
(* own, distinct from every named one; a result loaded for one environment  *)
(* is never returned for another.                                           *)
C25_CacheKeyedByEnvironment ==
  AnsweredFromCache => reply.result.env = reply.target

(* C26: at most one recomputation of the configuration is in flight for a   *)
(* cache key at any time: in every interleaving of file-change              *)
(* notifications and getConfig and reloadConfig calls for the same          *)
(* environment, no two loads for the same environment are in progress at    *)
(* once.                                                                    *)
C26_OneLoadInFlight ==
  \A i, j \in DOMAIN inFlight :
    (i # j) => ~(/\ inFlight[i].key = inFlight[j].key
                 /\ inFlight[i].target = inFlight[j].target)

(* C27: invalidation on a file-change notification is atomic with respect   *)
(* to the loads in progress: once a change notification has been processed  *)
(* the cache holds no result computed from files that were read before that *)
(* change.                                                                  *)
C27_NoStaleResultCached ==
  \A k \in DOMAIN configCache : cacheRead[k] >= notified

-----------------------------------------------------------------------------
(* ConfigWatcher and DebouncedConfigWatcher (src/src/watcher.ts:9-233).  An  *)
(* FSWatcher of chokidar is a handle: it sends events for its files until   *)
(* close() is called on it, and the promise of close() settles later; the   *)
(* callbacks given to then() by the calls of stop() made meanwhile then run *)
(* one after the other, with no other step between them, and each does the  *)
(* same, so they are one step.  A listener for 'error' is taken to          *)
(* be registered, so that a callback that throws is caught and reported     *)
(* (watcher.ts:168-173) and the delivery goes on.                           *)

\* the calls of watch()
MaxWatches == 2

\* the events within one debounce window
MaxEvents == 3

WatchFiles == {"app.config.json", "app.config.dev.json"}

\* two of the event types 'add', 'change' and 'unlink': the watchers treat
\* all three alike
EventTypes == {"change", "unlink"}

Event(type, path) == [type |-> type, path |-> path]

\* the position of path in the Map events, 0 when it has no entry
Position(events, path) ==
  IF \E i \in DOMAIN events : events[i].path = path
  THEN CHOOSE i \in DOMAIN events : events[i].path = path
  ELSE 0

\* every event is kept as an entry of its own
SetAppended(events, type, path) == Append(events, Event(type, path))

\* pendingEvents.set(filePath, eventType) (watcher.ts:202): a Map keeps one
\* entry for a key, at the place where the key was first set
Set(events, type, path) ==
  IF Position(events, path) = 0
  THEN Append(events, Event(type, path))
  ELSE [events EXCEPT ![Position(events, path)] = Event(type, path)]

\* watch(filePaths, ...) of chokidar (watcher.ts:32-46): a new FSWatcher;
\* restart records that watch() found a watcher active
FSWatcher(files, restart) ==
  [files |-> files, state |-> "open", restart |-> restart]

\* ConfigWatcher.stop() up to the return of its promise (watcher.ts:120-134):
\* close() is called on the watcher there is, and then() registers the
\* callback
Stopping(hs) ==
  IF watcher = <<>> THEN hs
  ELSE [hs EXCEPT ![watcher[1]].state = "closing"]

\* the window of events is open and empty
NoHistory == [events |-> <<>>, closed |-> FALSE]

\* the other subsystems are not used by a watcher on its own
WatcherOnly ==
  UNCHANGED <<pc, mergeVars, validateVars, loadVars, asyncVars, debounced>>

\* watch(files, callback) (watcher.ts:22-76); with a watcher active, stop() is
\* called first and not awaited (for a DebouncedConfigWatcher the overriding
\* stop, watcher.ts:225-232)
Watch(files) ==
  /\ Len(handles) < MaxWatches
  /\ handles' = Append(Stopping(handles), FSWatcher(files, watcher # <<>>))
  /\ watcher' = <<Len(handles) + 1>>
  /\ watchedFiles' = watchedFiles \cup files
  /\ IF debounced /\ watcher # <<>>
     THEN /\ debounceTimeout' = FALSE
          /\ pendingEvents' = <<>>
          /\ history' = NoHistory
          /\ delivered' = <<>>
     ELSE UNCHANGED <<debounceTimeout, pendingEvents, history, delivered>>
  /\ WatcherOnly

\* stop() (watcher.ts:120-134, and 225-232 for a DebouncedConfigWatcher)
Stop ==
  /\ handles' = Stopping(handles)
  /\ IF debounced
     THEN /\ debounceTimeout' = FALSE
          /\ pendingEvents' = <<>>
          /\ history' = NoHistory
          /\ delivered' = <<>>
     ELSE UNCHANGED <<debounceTimeout, pendingEvents, history, delivered>>
  /\ UNCHANGED <<watcher, watchedFiles>>
  /\ WatcherOnly

\* the promise of close() on handle id has settled: the callbacks registered
\* by stop() run (watcher.ts:124-129)
CloseCompleted(id) ==
  /\ id \in DOMAIN handles
  /\ handles[id].state = "closing"
  /\ handles' = [handles EXCEPT ![id].state = "closed"]
  /\ watcher' = <<>>
  /\ watchedFiles' = {}
  /\ UNCHANGED <<debounceTimeout, pendingEvents, history, delivered>>
  /\ WatcherOnly

\* handle id sends 'change' or 'unlink' for one of its files: the
\* listener calls this.handleFileEvent (watcher.ts:52-65), which delivers
\* at once (watcher.ts:160-175) or, debounced, stores the event and starts the
\* timer anew (watcher.ts:196-220)
FileEvent(id, type, path) ==
  /\ id \in DOMAIN handles
  /\ handles[id].state = "open"
  /\ path \in handles[id].files
  /\ IF debounced
     THEN /\ history.closed \/ Len(history.events) < MaxEvents
          /\ pendingEvents' = Set(pendingEvents, type, path)
          /\ debounceTimeout' = TRUE
          /\ history' = [events |-> IF history.closed THEN <<Event(type, path)>>
                                    ELSE Append(history.events, Event(type, path)),
                         closed |-> FALSE]
          /\ delivered' = <<>>
     ELSE /\ delivered' = <<Event(type, path)>>
          /\ UNCHANGED <<pendingEvents, debounceTimeout, history>>
  /\ UNCHANGED <<watcher, handles, watchedFiles>>
  /\ WatcherOnly

\* the debounce timer fires (watcher.ts:210-219): every pending event is
\* handed to ConfigWatcher.handleFileEvent, in the order of the Map
TimerFired ==
  /\ debounceTimeout
  /\ delivered' = pendingEvents
  /\ pendingEvents' = <<>>
  /\ debounceTimeout' = FALSE
  /\ history' = [history EXCEPT !.closed = TRUE]
  /\ UNCHANGED <<watcher, handles, watchedFiles>>
  /\ WatcherOnly

\* new ConfigWatcher() or new DebouncedConfigWatcher() (watcher.ts:14-17,
\* 186-191)
InitWatcher ==
  /\ debounced \in BOOLEAN
  /\ watcher = <<>>
  /\ handles = <<>>
  /\ watchedFiles = {}
  /\ debounceTimeout = FALSE
  /\ pendingEvents = <<>>
  /\ history = NoHistory
  /\ delivered = <<>>
  /\ pc = "ready"
  /\ MergeIdle
  /\ ValidateIdle
  /\ LoadIdle
  /\ AsyncIdle

NextWatcher ==
  \/ \E files \in SUBSET WatchFiles : Watch(files)
  \/ Stop
  \/ \E id \in 1..MaxWatches : CloseCompleted(id)
  \/ \E id \in 1..MaxWatches : \E type \in EventTypes : \E path \in WatchFiles :
       FileEvent(id, type, path)
  \/ TimerFired

SpecWatcher == InitWatcher /\ [][NextWatcher]_vars

-----------------------------------------------------------------------------
\* the paths that have an event in the sequence events
PathsOf(events) == {events[i].path : i \in DOMAIN events}

\* the most recent event for path in the sequence events
LatestFor(events, path) ==
  events[CHOOSE i \in DOMAIN events :
           /\ events[i].path = path
           /\ \A j \in DOMAIN events : events[j].path = path => j <= i]

\* seq holds one entry for each distinct path of events, and that entry is the
\* most recent event of the path
Coalesces(seq, events) ==
  /\ Len(seq) = Cardinality(PathsOf(events))
  /\ {seq[i] : i \in DOMAIN seq} = {LatestFor(events, p) : p \in PathsOf(events)}

LatestWatcher == handles[Len(handles)]

\* every promise of close() has settled and its callbacks have run
ClosesCompleted == \A i \in DOMAIN handles : handles[i].state # "closing"

(* C29: watch(files2) called while a previous watch is active restarts      *)
(* watching on the new files: once the close of the previous watcher has    *)
(* completed (and stop() was not called since), isWatching() is true and    *)
(* getWatchedFiles() is exactly files2.                                     *)
C29_WatchRestarts ==
  (/\ handles # <<>>
   /\ LatestWatcher.restart
   /\ LatestWatcher.state = "open"
   /\ ClosesCompleted)
    => /\ watcher # <<>>
       /\ watchedFiles = LatestWatcher.files

====
